---- MODULE Spec2Model ----
(***************************************************************************)
(* Model of the PDF engine of pdf1 (services/pdfService.ts): the           *)
(* single-output merge, per-file batch processing, the watermark engine,   *)
(* the default cover synthesizer and the editor compile.                   *)
(*                                                                         *)
(* A PDF file is a record [id, n, ok, rot, size]: n pages of that rotation *)
(* and size, ok = PDFDocument.load accepts its bytes.  A page of an        *)
(* output document is a record [src, file, idx, rot, size, draws]: where   *)
(* it was copied from, its rotation, its size and the draw operations      *)
(* issued on it, in order.  Lengths are in units of 1/200 pt, so that      *)
(* halving a page width given in hundredths of a point is exact.           *)
(*                                                                         *)
(* JavaScript numbers are IEEE-754 doubles.  The progress values are       *)
(* modelled as doubles: a value is a fixed-point number with 56 fraction   *)
(* bits held in four limbs of 16 bits, least significant first, and every  *)
(* arithmetic operation rounds to 53 significant bits, ties to even.       *)
(***************************************************************************)
EXTENDS Integers, Sequences, FiniteSets, TLC

\* ---------------------------------------------------------------- bounds
MaxFiles == 2
MaxPages == 3
ManyFiles == 147
MaxSourcePages == 2
MaxEditorPages == 2

\* the longest list of buffers handed to the post-merge combiner
MaxBuffers == 3

\* the application: the ids generateId may hand out, the files picked at once
MaxIds == 4
MaxPicked == 2

\* the longest list of references to sources in the cache runs
MaxRefs == 5

\* the compile calls made one after the other
MaxCalls == 2

\* the content files, and the editor source files, of the handler runs
MaxHandlerFiles == 1

\* the text opacities are the multiples of 1 / OpacityGrid in [0, 1]
OpacityGrid == 20

\* ------------------------------------------------- IEEE-754 double values
Base == 65536
FracUnit == 256

FxCarry(a0, a1, a2, a3) ==
  LET b1 == a1 + (a0 \div Base)
      b2 == a2 + (b1 \div Base)
      b3 == a3 + (b2 \div Base)
  IN  <<a0 % Base, b1 % Base, b2 % Base, b3>>

FxFromInt(v) == <<0, 0, 0, v * FracUnit>>

FxAdd(x, y) == FxCarry(x[1] + y[1], x[2] + y[2], x[3] + y[3], x[4] + y[4])

FxMulSmall(x, k) == FxCarry(x[1] * k, x[2] * k, x[3] * k, x[4] * k)

FxLess(x, y) ==
  \/ x[4] < y[4]
  \/ x[4] = y[4] /\ x[3] < y[3]
  \/ x[4] = y[4] /\ x[3] = y[3] /\ x[2] < y[2]
  \/ x[4] = y[4] /\ x[3] = y[3] /\ x[2] = y[2] /\ x[1] < y[1]

FxLeq(x, y) == ~FxLess(y, x)

\* quotient q and remainder r of the fixed-point number x divided by n
FxDivSmall(x, n) ==
  LET q4 == x[4] \div n
      r4 == x[4] % n
      q3 == (r4 * Base + x[3]) \div n
      r3 == (r4 * Base + x[3]) % n
      q2 == (r3 * Base + x[2]) \div n
      r2 == (r3 * Base + x[2]) % n
      q1 == (r2 * Base + x[1]) \div n
      r1 == (r2 * Base + x[1]) % n
  IN  [q |-> <<q1, q2, q3, q4>>, r |-> r1]

RECURSIVE Pow2Floor(_)
Pow2Floor(v) == IF v < 2 THEN 1 ELSE 2 * Pow2Floor(v \div 2)

\* spacing of the doubles in the binade of x, in units of 2^-56; a value
\* below 2^-4 has at most 52 significant bits here and is a double as it is
Ulp(x) == IF x[4] < 16 THEN 1 ELSE Pow2Floor(x[4]) \div 16

\* x + t/d (0 <= t < d) rounded to the nearest double, ties to even
RoundDouble(x, t, d) ==
  LET Nearest(v) ==
        LET u     == Ulp(v)
            low   == v[1] % u
            down  == FxCarry(v[1] - low, v[2], v[3], v[4])
            up    == FxCarry(v[1] - low + u, v[2], v[3], v[4])
            twice == 2 * (low * d + t)
            odd   == (v[1] \div u) % 2 = 1
        IN  IF twice < u * d THEN down
            ELSE IF twice > u * d THEN up
            ELSE IF odd THEN up ELSE down
  IN  \* v is the value of x, computed once
      CHOOSE r \in {Nearest(v) : v \in {x}} : TRUE

\* a / n, k * x and x + y as JavaScript computes them
DblDiv(a, n) == LET qr == FxDivSmall(FxFromInt(a), n) IN RoundDouble(qr.q, qr.r, n)

DblMul(k, x) == RoundDouble(FxMulSmall(x, k), 0, 1)

DblAdd(x, y) == RoundDouble(FxAdd(x, y), 0, 1)

\* ------------------------------------------------------------ constants
WATERMARK_ANGLE == 60

\* mutant: the strict config also enables the crossed stamp
MERGE_CONFIG_crossed ==
  [diagonal |-> TRUE, bottom |-> TRUE, top |-> FALSE, crossed |-> TRUE,
   textOpacity |-> DblDiv(1, 5), logoFile |-> <<>>]

DEFAULT_MERGE_CONFIG ==
  [diagonal |-> TRUE, bottom |-> TRUE, top |-> FALSE, crossed |-> FALSE,
   textOpacity |-> DblDiv(1, 5), logoFile |-> <<>>]

\* the handle of the embedded font (StandardFonts.HelveticaBold):
\* widthAt10 is font.widthOfTextAtSize(DEFAULT_WATERMARK_TEXT, 10), which the
\* font's metrics decide
HelveticaBold == [widthAt10 |-> 13224]

MergeErrorMessage == "Failed to process PDFs. Ensure files are valid."

\* ---------------------------------------------------------------- inputs
\* n points, in units of 1/200 pt
Pt(n) == 200 * n

\* 595.28 x 841.89 pt
A4 == [width |-> 119056, height |-> 168378]

\* a parseable file has 1..MaxPages pages; an unparseable one yields none
PdfFiles(ids) ==
  {[id |-> d, n |-> k, ok |-> TRUE, rot |-> 0, size |-> A4] : d \in ids, k \in 1..MaxPages}
    \cup {[id |-> d, n |-> 0, ok |-> FALSE, rot |-> 0, size |-> A4] : d \in ids}

CoverId == 0

\* an optional value is a sequence of length 0 or 1
Optional(S) == {<<>>} \cup {<<x>> : x \in S}

\* the content-file lists: every ordering of up to maxLen distinct files
FileLists(maxLen) ==
  UNION {{s \in [1..len -> PdfFiles(1..maxLen)] :
            \A a, b \in 1..len : a # b => s[a].id # s[b].id} : len \in 0..maxLen}

\* logo files: declared MIME type, file name extension, actual byte format
LogoFiles ==
  {[type |-> "image/png",  ext |-> ".png",  data |-> "png"],
   [type |-> "image/jpeg", ext |-> ".jpg",  data |-> "jpeg"],
   [type |-> "",           ext |-> ".JPEG", data |-> "jpeg"],
   [type |-> "image/gif",  ext |-> ".gif",  data |-> "gif"],
   [type |-> "image/png",  ext |-> ".png",  data |-> "corrupt"]}

\* page rotations
Rotations == {0, 90, 180, 270}

\* the editor's source files (FileWithId): ids are unique; the pages of
\* source 1 are upright, those of source 2 are stored rotated by 270
SourceIds == {1, 2}

SourceRotation(id) == IF id = 1 THEN 0 ELSE 270

SourceFile(id) ==
  {[id |-> id, n |-> k, ok |-> TRUE, rot |-> SourceRotation(id), size |-> A4] : k \in 1..MaxSourcePages}
    \cup {[id |-> id, n |-> 0, ok |-> FALSE, rot |-> 0, size |-> A4]}

\* the source lists: any subset of the ids, one file per id
SourceLists ==
  {<<>>} \cup {<<f>> : f \in SourceFile(1) \cup SourceFile(2)}
         \cup {<<f, g>> : f \in SourceFile(1), g \in SourceFile(2)}

\* EditorPage: fileId, originalPageIndex, rotation (id and thumbnailUrl are
\* not read by the engine)
EditorPages ==
  [fileId : SourceIds, originalPageIndex : 0..(MaxSourcePages - 1), rotation : Rotations]

EditorPageLists == UNION {[1..len -> EditorPages] : len \in 0..MaxEditorPages}

NoArgs ==
  [op |-> "none", coverFile |-> <<>>, contentFiles |-> <<>>, useDefaultCover |-> FALSE,
   defaultCoverLogo |-> <<>>, config |-> DEFAULT_MERGE_CONFIG,
   editorPages |-> <<>>, sourceFiles |-> <<>>,
   processedFiles |-> <<>>, priorFiles |-> <<>>, font |-> HelveticaBold,
   metadata |-> <<>>, onProgress |-> "returns"]

\* ----------------------------------------------------------------- state
VARIABLES
  pc,      \* position of the engine call in progress
  args,    \* arguments of the call
  doc,     \* the output document under construction
  i,       \* loop index of the call
  events,  \* engine events in program order: progress, load, embed, save...
  result,  \* what the call returned or threw
  embeddedLogo,  \* processBatchFile: the logo image was embedded (not null)
  loadedDocs     \* buildPdfFromEditor: the cache of parsed source documents

\* the state of the application (App.tsx) and of its handler in flight
VARIABLES
  mode,               \* 'MERGE' | 'WATERMARK_ONLY' | 'EDITOR'
  appCoverFile,       \* coverFile: FileWithId[] of length 0 or 1
  appContentFiles,    \* contentFiles: FileWithId[]
  appEditorPages,     \* editorPages: EditorPage[]
  editorSourceFiles,  \* FileWithId[]
  processingState,    \* [status, progress]
  mergedPdfUrl,       \* <<>> (null) or <<the bytes behind the URL>>
  appProcessedFiles,  \* processedFiles: ProcessedFile[]
  task,               \* the asynchronous handler in flight, with its locals
  log,                \* what the handlers did, in program order
  nextId,             \* the ids generateId has handed out so far
  history             \* per editor page, its last rotations (for C14)

engineVars == <<pc, args, doc, i, events, result, embeddedLogo, loadedDocs>>

appVars == <<mode, appCoverFile, appContentFiles, appEditorPages, editorSourceFiles,
             processingState, mergedPdfUrl, appProcessedFiles, task, log, nextId, history>>

vars == <<pc, args, doc, i, events, result, embeddedLogo, loadedDocs,
          mode, appCoverFile, appContentFiles, appEditorPages, editorSourceFiles,
          processingState, mergedPdfUrl, appProcessedFiles, task, log, nextId, history>>

\* no handler in flight
NoTask ==
  [kind |-> "none", step |-> "", i |-> 0, files |-> <<>>, cover |-> <<>>, results |-> <<>>,
   pages |-> <<>>]

\* useState<ProcessingState>({ status: MergeStatus.IDLE, progress: 0 })
IdleState == [status |-> "IDLE", progress |-> FxFromInt(0)]

NoResult == [status |-> "none", bytes |-> <<>>, error |-> ""]

\* PDFDocument.create()
\* the title, author and creator the engine has written: none
NoMeta == [title |-> <<>>, author |-> <<>>, creator |-> <<>>]

EmptyDoc == [pages |-> <<>>, images |-> 0, saved |-> FALSE, meta |-> NoMeta]

Ev(e, v) == [e |-> e, v |-> v]

\* -------------------------------------------------------- document model
\* doc.getPageIndices()
getPageIndices(f) == [j \in 1..f.n |-> j - 1]

\* mutant: the last index is not copied
copyPagesShort(src, f, indices) ==
  [k \in 1..(Len(indices) - 1) |->
     [src |-> src, file |-> f.id, idx |-> indices[k], rot |-> f.rot, size |-> f.size, draws |-> <<>>]]

\* mutant: the pages come back in reverse order
copyPagesReversed(src, f, indices) ==
  [k \in 1..Len(indices) |->
     [src |-> src, file |-> f.id, idx |-> indices[Len(indices) + 1 - k],
      rot |-> f.rot, size |-> f.size, draws |-> <<>>]]

\* mutant: the leading pages are copied, whatever the indices
copyPagesLeading(src, f, indices) ==
  [k \in 1..Len(indices) |->
     [src |-> src, file |-> f.id, idx |-> k - 1, rot |-> f.rot, size |-> f.size, draws |-> <<>>]]

\* target.copyPages(srcDoc, indices): the pages at the indices, in that order,
\* with the rotation and the size they have in the source
copyPages(src, f, indices) ==
  [k \in 1..Len(indices) |->
     [src |-> src, file |-> f.id, idx |-> indices[k], rot |-> f.rot, size |-> f.size, draws |-> <<>>]]

\* mutant: unreadable bytes load as a document
loadLenient(f) == TRUE

\* PDFDocument.load(bytes) succeeds iff the bytes are a PDF
load(f) == f.ok

\* lower-casing of a file name extension
toLowerCase(ext) == IF ext = ".JPEG" THEN ".jpeg" ELSE IF ext = ".JPG" THEN ".jpg" ELSE ext

\* embedJpg / embedPng succeed iff the bytes have that format
embedJpg(logo) == logo.data = "jpeg"

embedPng(logo) == logo.data = "png"

\* ------------------------------------------------------ watermark engine
\* a text draw rotated about the page centre
TextDraw(stamp, rotate, opacity) ==
  [op |-> "text", stamp |-> stamp, rotate |-> rotate, opacity |-> opacity]

\* an unrotated text draw of size 10 with its lower left corner at (x, y)
TextDrawAt(stamp, x, y, opacity) ==
  [op |-> "text", stamp |-> stamp, rotate |-> 0, x |-> x, y |-> y, opacity |-> opacity]

ImageDraw(what) == [op |-> "image", stamp |-> what, rotate |-> 0]

\* drawRotatedWatermark(angle), with the opacity it takes from its closure
drawRotatedWatermark(stamp, angle, opacity) == <<TextDraw(stamp, angle, opacity)>>

\* mutant: the boosted opacity is not clamped
boostedOpacityUnclamped(opacity) == DblAdd(opacity, DblDiv(2, 5))

\* Math.min(opacity + 0.4, 1)
boostedOpacity(opacity) ==
  LET sum == DblAdd(opacity, DblDiv(2, 5))
  IN  IF FxLess(sum, FxFromInt(1)) THEN sum ELSE FxFromInt(1)

\* mutant: the footer is drawn whatever the flag
applyWatermarkFooterAlways(page, font, config, logoImage) ==
  [page EXCEPT !.draws =
     @ \o (IF logoImage THEN <<ImageDraw("logo")>> ELSE <<>>)
       \o (IF config.diagonal THEN drawRotatedWatermark("diagonal", WATERMARK_ANGLE, config.textOpacity) ELSE <<>>)
       \o (IF config.crossed THEN drawRotatedWatermark("crossed", -WATERMARK_ANGLE, config.textOpacity) ELSE <<>>)
       \o <<TextDrawAt("bottom", (page.size.width \div 2) - (font.widthAt10 \div 2), Pt(15),
                               boostedOpacity(config.textOpacity))>>
       \o (IF config.top
             THEN <<TextDrawAt("top", (page.size.width \div 2) - (font.widthAt10 \div 2),
                               page.size.height - Pt(25),
                               boostedOpacity(config.textOpacity))>>
             ELSE <<>>)]

\* mutant: the header is placed 25pt above the bottom edge
applyWatermarkHeaderLow(page, font, config, logoImage) ==
  [page EXCEPT !.draws =
     @ \o (IF logoImage THEN <<ImageDraw("logo")>> ELSE <<>>)
       \o (IF config.diagonal THEN drawRotatedWatermark("diagonal", WATERMARK_ANGLE, config.textOpacity) ELSE <<>>)
       \o (IF config.crossed THEN drawRotatedWatermark("crossed", -WATERMARK_ANGLE, config.textOpacity) ELSE <<>>)
       \o (IF config.bottom
             THEN <<TextDrawAt("bottom", (page.size.width \div 2) - (font.widthAt10 \div 2),
                               Pt(15),
                               boostedOpacity(config.textOpacity))>>
             ELSE <<>>)
       \o (IF config.top
             THEN <<TextDrawAt("top", (page.size.width \div 2) - (font.widthAt10 \div 2), Pt(25),
                               boostedOpacity(config.textOpacity))>>
             ELSE <<>>)]

\* the draws applyWatermarkToPage issues, in order: the logo image, then the
\* diagonal, crossed, bottom and top stamps that are enabled
applyWatermarkToPage(page, font, config, logoImage) ==
  [page EXCEPT !.draws =
     @ \o (IF logoImage THEN <<ImageDraw("logo")>> ELSE <<>>)
       \o (IF config.diagonal THEN drawRotatedWatermark("diagonal", WATERMARK_ANGLE, config.textOpacity) ELSE <<>>)
       \o (IF config.crossed THEN drawRotatedWatermark("crossed", -WATERMARK_ANGLE, config.textOpacity) ELSE <<>>)
       \o (IF config.bottom
             THEN <<TextDrawAt("bottom", (page.size.width \div 2) - (font.widthAt10 \div 2),
                               Pt(15),
                               boostedOpacity(config.textOpacity))>>
             ELSE <<>>)
       \o (IF config.top
             THEN <<TextDrawAt("top", (page.size.width \div 2) - (font.widthAt10 \div 2),
                               page.size.height - Pt(25),
                               boostedOpacity(config.textOpacity))>>
             ELSE <<>>)]

\* a page handed to the watermark engine: already appended to the output
\* document, nothing drawn on it yet
watermarkTarget(size, font, config, logoImage) ==
  /\ pc = "idle"
  /\ pc' = "w_apply"
  /\ args' = [NoArgs EXCEPT !.op = "watermark", !.config = config, !.font = font]
  /\ embeddedLogo' = logoImage
  /\ doc' = [EmptyDoc EXCEPT
               !.pages = <<[src |-> "content", file |-> 1, idx |-> 0, rot |-> 0,
                            size |-> size, draws |-> <<>>]>>,
               !.images = IF logoImage THEN 1 ELSE 0]
  /\ i' = 0
  /\ events' = <<>>
  /\ result' = NoResult
  /\ UNCHANGED loadedDocs

\* applyWatermarkToPage(page, font, config, logoImage) on that page
watermarkPage ==
  /\ pc = "w_apply"
  /\ doc' = [doc EXCEPT
               !.pages[1] = applyWatermarkToPage(@, args.font, args.config, embeddedLogo)]
  /\ result' = [status |-> "ok", bytes |-> <<>>, error |-> ""]
  /\ pc' = "done"
  /\ UNCHANGED <<args, i, events, embeddedLogo, loadedDocs>>
  /\ UNCHANGED appVars

\* ------------------------------------------------- default cover synthesizer
\* the embed method generateDefaultCoverPage picks: JPEG by declared type or
\* by a name ending in .jpg, PNG for everything else
coverLogoMethod(logo) ==
  IF logo.type = "image/jpeg" \/ logo.ext = ".jpg" THEN "jpg" ELSE "png"

\* the logo branch of generateDefaultCoverPage: TRUE iff an image was embedded;
\* a failing embed is caught and logged
coverLogoEmbedded(logoFile) ==
  /\ Len(logoFile) > 0
  /\ IF coverLogoMethod(logoFile[1]) = "jpg"
       THEN embedJpg(logoFile[1])
       ELSE embedPng(logoFile[1])

\* mutant: a second, blank page follows the cover
generateDefaultCoverTwoPages(d, logoFile) ==
  [d EXCEPT !.pages = @ \o <<[src |-> "default", file |-> CoverId, idx |-> 0, rot |-> 0,
                               size |-> A4, draws |-> <<>>],
                              [src |-> "default", file |-> CoverId, idx |-> 1, rot |-> 0,
                               size |-> A4, draws |-> <<>>]>>,
            !.images = @ + (IF coverLogoEmbedded(logoFile) THEN 1 ELSE 0)]

\* one A4 page: header band, optional logo, title, subtitle, then the fixed
\* cards, pills, icon row and footer (one "layout" entry)
generateDefaultCoverPage(d, logoFile) ==
  LET page == [src |-> "default", file |-> CoverId, idx |-> 0, rot |-> 0, size |-> A4,
               draws |-> <<[op |-> "rect", stamp |-> "header", rotate |-> 0],
                           [op |-> "rect", stamp |-> "glow", rotate |-> 0]>>
                         \o (IF coverLogoEmbedded(logoFile)
                               THEN <<ImageDraw("coverLogo")>> ELSE <<>>)
                         \o <<[op |-> "text", stamp |-> "title", rotate |-> 0],
                              [op |-> "text", stamp |-> "subtitle", rotate |-> 0],
                              [op |-> "layout", stamp |-> "body", rotate |-> 0]>>]
  IN  [d EXCEPT !.pages = Append(@, page),
                !.images = @ + (IF coverLogoEmbedded(logoFile) THEN 1 ELSE 0)]

\* the events of one synthesizer call
coverEvents(logoFile) ==
  <<Ev("addPage", <<"default">>)>>
    \o (IF Len(logoFile) > 0
          THEN <<Ev("embed", <<"cover", coverLogoMethod(logoFile[1]), coverLogoEmbedded(logoFile)>>)>>
          ELSE <<>>)

\* ---------------------------------------------------- single-output merge
\* mutant: the cover pages are stamped like content pages
addCoverPagesStamped(d, pages) ==
  [d EXCEPT !.pages =
     @ \o [k \in 1..Len(pages) |-> applyWatermarkToPage(pages[k], HelveticaBold, DEFAULT_MERGE_CONFIG, FALSE)]]

\* doc.addPage(page) for each copied page, watermarking the content pages
addCoverPages(d, pages) == [d EXCEPT !.pages = @ \o pages]

addContentPages(d, pages, config, logoImage) ==
  [d EXCEPT !.pages =
     @ \o [k \in 1..Len(pages) |-> applyWatermarkToPage(pages[k], HelveticaBold, config, logoImage)]]

\* mutant: the loop index is used without the + 1
contentProgressOffByOne(idx, totalFiles) ==
  DblAdd(FxFromInt(15), DblMul(idx, DblDiv(80, totalFiles)))

\* 15 + ((i + 1) * progressChunk), progressChunk = 80 / totalFiles
contentProgress(idx, totalFiles) ==
  DblAdd(FxFromInt(15), DblMul(idx + 1, DblDiv(80, totalFiles)))

\* mutant: the flag is tested before the cover file
coverChoiceFlagFirst(coverFile, useDefaultCover) ==
  IF useDefaultCover THEN "default"
  ELSE IF Len(coverFile) > 0 THEN "file"
  ELSE "none"

\* the if / else-if chain of Step 1: a supplied cover wins over the flag
coverChoice(coverFile, useDefaultCover) ==
  IF Len(coverFile) > 0 THEN "file"
  ELSE IF useDefaultCover THEN "default"
  ELSE "none"

\* the catch block of mergeAndWatermarkPdfs
mergeCatch == [status |-> "error", bytes |-> <<>>, error |-> MergeErrorMessage]

\* mutant: the title and the author are written whatever they are
setMetadataAlways(pdf, metadata) ==
  IF Len(metadata) > 0
    THEN [pdf EXCEPT !.meta = [title |-> <<metadata[1].title>>,
                               author |-> <<metadata[1].author>>,
                               creator |-> <<"VTU Notes Merging System">>]]
    ELSE [pdf EXCEPT !.meta.title = <<"">>, !.meta.author = <<"">>]

\* if (metadata) { if (metadata.title) setTitle(...); if (metadata.author)
\* setAuthor(...); setCreator('VTU Notes Merging System') }
setMetadata(pdf, metadata) ==
  IF Len(metadata) > 0
    THEN [pdf EXCEPT
            !.meta = [title   |-> IF metadata[1].title # "" THEN <<metadata[1].title>> ELSE <<>>,
                      author  |-> IF metadata[1].author # "" THEN <<metadata[1].author>> ELSE <<>>,
                      creator |-> <<"VTU Notes Merging System">>]]
    ELSE pdf

\* the call: create the document, set metadata, embed the font
mergeAndWatermarkPdfs(coverFile, contentFiles, onProgress, metadata, defaultCoverLogo, useDefaultCover) ==
  /\ pc = "idle"
  /\ pc' = "m_cover"
  /\ args' = [NoArgs EXCEPT !.op = "merge", !.coverFile = coverFile, !.contentFiles = contentFiles,
                            !.defaultCoverLogo = defaultCoverLogo,
                            !.useDefaultCover = useDefaultCover, !.metadata = metadata,
                            !.onProgress = onProgress]
  /\ doc' = setMetadata(EmptyDoc, metadata)
  /\ i' = 0
  /\ events' = <<>>
  /\ result' = NoResult
  /\ UNCHANGED <<embeddedLogo, loadedDocs>>

\* Step 1, a cover file is supplied: report 5, parse it, copy its pages
mergeCoverFile ==
  /\ pc = "m_cover"
  /\ args.onProgress = "returns"
  /\ coverChoice(args.coverFile, args.useDefaultCover) = "file"
  /\ LET f == args.coverFile[1] IN
       IF load(f)
         THEN /\ doc' = addCoverPages(doc, copyPages("cover", f, getPageIndices(f)))
              /\ events' = events \o <<Ev("progress", FxFromInt(5)), Ev("load", <<"cover", f.id>>),
                                       Ev("progress", FxFromInt(15))>>
              /\ pc' = "m_content"
              /\ result' = result
         ELSE /\ doc' = doc
              /\ events' = events \o <<Ev("progress", FxFromInt(5)), Ev("load", <<"cover", f.id>>)>>
              /\ pc' = "done"
              /\ result' = mergeCatch
  /\ UNCHANGED <<args, i, embeddedLogo, loadedDocs>>
  /\ UNCHANGED appVars

\* Step 1, no cover file and the flag is set: report 5, synthesize the cover
mergeDefaultCover ==
  /\ pc = "m_cover"
  /\ args.onProgress = "returns"
  /\ coverChoice(args.coverFile, args.useDefaultCover) = "default"
  /\ doc' = generateDefaultCoverPage(doc, args.defaultCoverLogo)
  /\ events' = events \o <<Ev("progress", FxFromInt(5))>> \o coverEvents(args.defaultCoverLogo)
                      \o <<Ev("progress", FxFromInt(15))>>
  /\ pc' = "m_content"
  /\ UNCHANGED <<args, i, result, embeddedLogo, loadedDocs>>
  /\ UNCHANGED appVars

\* Step 1, neither: only 15 is reported
mergeNoCover ==
  /\ pc = "m_cover"
  /\ args.onProgress = "returns"
  /\ coverChoice(args.coverFile, args.useDefaultCover) = "none"
  /\ events' = Append(events, Ev("progress", FxFromInt(15)))
  /\ pc' = "m_content"
  /\ UNCHANGED <<args, doc, i, result, embeddedLogo, loadedDocs>>
  /\ UNCHANGED appVars

\* Step 1 with a callback that throws: the first onProgress (5 with a cover,
\* 15 without) is inside the try block, so the catch block ends the call
mergeCallbackThrows ==
  /\ pc = "m_cover"
  /\ args.onProgress = "throws"
  /\ events' = Append(events,
                      Ev("progress",
                         FxFromInt(IF coverChoice(args.coverFile, args.useDefaultCover) = "none"
                                     THEN 15 ELSE 5)))
  /\ result' = mergeCatch
  /\ pc' = "done"
  /\ UNCHANGED <<args, doc, i, embeddedLogo, loadedDocs>>
  /\ UNCHANGED appVars

\* Step 2, one iteration of the loop over the content files
mergeContentFile ==
  /\ pc = "m_content"
  /\ i < Len(args.contentFiles)
  /\ LET f == args.contentFiles[i + 1] IN
       IF load(f)
         THEN /\ doc' = addContentPages(doc, copyPages("content", f, getPageIndices(f)),
                                        DEFAULT_MERGE_CONFIG, FALSE)
              /\ events' = events \o <<Ev("load", <<"content", f.id>>),
                                       Ev("progress", contentProgress(i, Len(args.contentFiles)))>>
              /\ i' = i + 1
              /\ pc' = pc
              /\ result' = result
         ELSE /\ doc' = doc
              /\ events' = Append(events, Ev("load", <<"content", f.id>>))
              /\ i' = i
              /\ pc' = "done"
              /\ result' = mergeCatch
  /\ UNCHANGED <<args, embeddedLogo, loadedDocs>>
  /\ UNCHANGED appVars

\* report 95, serialize, report 100, return the bytes
mergeSave ==
  /\ pc = "m_content"
  /\ i = Len(args.contentFiles)
  /\ doc' = [doc EXCEPT !.saved = TRUE]
  /\ events' = events \o <<Ev("progress", FxFromInt(95)), Ev("save", <<>>),
                           Ev("progress", FxFromInt(100))>>
  /\ result' = [status |-> "ok", bytes |-> doc.pages, error |-> ""]
  /\ pc' = "done"
  /\ UNCHANGED <<args, i, embeddedLogo, loadedDocs>>
  /\ UNCHANGED appVars

\* -------------------------------------------------- per-file batch processing
\* the embed method processBatchFile picks: JPEG by declared type or by a
\* lower-cased name ending in .jpg or .jpeg, PNG for everything else
batchLogoMethod(logo) ==
  IF \/ logo.type = "image/jpeg"
     \/ toLowerCase(logo.ext) = ".jpg"
     \/ toLowerCase(logo.ext) = ".jpeg"
    THEN "jpg" ELSE "png"

\* mutant: the image handle is kept although the embed failed
batchLogoEmbeddedUnchecked(logoFile) == Len(logoFile) > 0

\* the try / catch around the embed: TRUE iff embeddedLogo is not null
batchLogoEmbedded(logoFile) ==
  /\ Len(logoFile) > 0
  /\ IF batchLogoMethod(logoFile[1]) = "jpg"
       THEN embedJpg(logoFile[1])
       ELSE embedPng(logoFile[1])

\* a rejected PDFDocument.load is not caught in processBatchFile
batchThrow == [status |-> "error", bytes |-> <<>>, error |-> "ParseError"]

\* the call: create the document, set metadata, embed the font
processBatchFile(contentFile, coverFile, config, metadata) ==
  /\ pc = "idle"
  /\ pc' = "b_logo"
  /\ args' = [NoArgs EXCEPT !.op = "batch", !.coverFile = coverFile,
                            !.contentFiles = <<contentFile>>, !.config = config,
                            !.metadata = metadata]
  /\ doc' = setMetadata(EmptyDoc, metadata)
  /\ i' = 0
  /\ events' = <<>>
  /\ result' = NoResult
  /\ embeddedLogo' = FALSE
  /\ UNCHANGED loadedDocs

\* embed the logo if the config has one; a failure is logged and ignored
batchEmbedLogo ==
  /\ pc = "b_logo"
  /\ embeddedLogo' = batchLogoEmbedded(args.config.logoFile)
  /\ doc' = [doc EXCEPT !.images = @ + (IF batchLogoEmbedded(args.config.logoFile) THEN 1 ELSE 0)]
  /\ events' = events \o
       (IF Len(args.config.logoFile) > 0
          THEN <<Ev("embed", <<"batch", batchLogoMethod(args.config.logoFile[1]),
                               batchLogoEmbedded(args.config.logoFile)>>)>>
          ELSE <<>>)
  /\ pc' = "b_cover"
  /\ UNCHANGED <<args, i, result, loadedDocs>>
  /\ UNCHANGED appVars

\* 1. add the cover pages, without watermark
batchCoverFile ==
  /\ pc = "b_cover"
  /\ Len(args.coverFile) > 0
  /\ LET f == args.coverFile[1] IN
       IF load(f)
         THEN /\ doc' = addCoverPages(doc, copyPages("cover", f, getPageIndices(f)))
              /\ pc' = "b_content"
              /\ result' = result
         ELSE /\ doc' = doc
              /\ pc' = "done"
              /\ result' = batchThrow
  /\ events' = Append(events, Ev("load", <<"cover", args.coverFile[1].id>>))
  /\ UNCHANGED <<args, i, embeddedLogo, loadedDocs>>
  /\ UNCHANGED appVars

batchNoCover ==
  /\ pc = "b_cover"
  /\ Len(args.coverFile) = 0
  /\ pc' = "b_content"
  /\ UNCHANGED <<args, doc, i, events, result, embeddedLogo, loadedDocs>>
  /\ UNCHANGED appVars

\* 2. add the content pages, each watermarked, and serialize
batchContent ==
  /\ pc = "b_content"
  /\ LET f == args.contentFiles[1] IN
       IF load(f)
         THEN /\ doc' = [addContentPages(doc, copyPages("content", f, getPageIndices(f)),
                                         args.config, embeddedLogo)
                           EXCEPT !.saved = TRUE]
              /\ events' = events \o <<Ev("load", <<"content", f.id>>), Ev("save", <<>>)>>
              /\ result' = [status |-> "ok", bytes |-> doc'.pages, error |-> ""]
         ELSE /\ doc' = doc
              /\ events' = Append(events, Ev("load", <<"content", f.id>>))
              /\ result' = batchThrow
  /\ pc' = "done"
  /\ UNCHANGED <<args, i, embeddedLogo, loadedDocs>>
  /\ UNCHANGED appVars

\* ------------------------------------------------------- post-merge combiner
\* a processed buffer: the bytes of an output document (its pages), or bytes
\* that are not a PDF
Buffer(pages) == [ok |-> TRUE, pages |-> pages]

CorruptBuffer == [ok |-> FALSE, pages |-> <<>>]

\* the output processBatchFile gives for a content file under the default
\* configuration, as a buffer
ProcessedBuffer(f) ==
  IF f.ok
    THEN Buffer(addContentPages(EmptyDoc, copyPages("content", f, getPageIndices(f)),
                                DEFAULT_MERGE_CONFIG, FALSE).pages)
    ELSE CorruptBuffer

\* doc.getPageIndices() of a loaded buffer
bufferPageIndices(b) == [j \in 1..Len(b.pages) |-> j - 1]

\* mutant: the last page of each buffer is dropped
copyBufferPagesShort(b, indices) ==
  [k \in 1..(Len(indices) - 1) |-> b.pages[indices[k] + 1]]

\* mergedPdf.copyPages(doc, indices) of a loaded buffer: the pages as they are
copyBufferPages(b, indices) ==
  [k \in 1..Len(indices) |-> b.pages[indices[k] + 1]]

\* the call: create the document, set the creator
mergeProcessedFiles(processedFiles, priorFiles) ==
  /\ pc' = "c_loop"
  /\ args' = [NoArgs EXCEPT !.op = "combine", !.processedFiles = processedFiles,
                            !.priorFiles = priorFiles]
  /\ doc' = EmptyDoc
  /\ i' = 0
  /\ events' = <<>>
  /\ result' = NoResult
  /\ UNCHANGED <<embeddedLogo, loadedDocs>>

\* one iteration of the loop over the buffers; a rejected load is not caught
combineBuffer ==
  /\ pc = "c_loop"
  /\ i < Len(args.processedFiles)
  /\ LET b == args.processedFiles[i + 1] IN
       IF b.ok
         THEN /\ doc' = addCoverPages(doc, copyBufferPages(b, bufferPageIndices(b)))
              /\ i' = i + 1
              /\ UNCHANGED <<pc, result>>
         ELSE /\ pc' = "done"
              /\ result' = [status |-> "error", bytes |-> <<>>, error |-> "ParseError"]
              /\ UNCHANGED <<doc, i>>
  /\ events' = Append(events, Ev("load", <<"buffer", i>>))
  /\ UNCHANGED <<args, embeddedLogo, loadedDocs>>
  /\ UNCHANGED appVars

\* return await mergedPdf.save()
combineSave ==
  /\ pc = "c_loop"
  /\ i = Len(args.processedFiles)
  /\ doc' = [doc EXCEPT !.saved = TRUE]
  /\ events' = Append(events, Ev("save", <<>>))
  /\ result' = [status |-> "ok", bytes |-> doc.pages, error |-> ""]
  /\ pc' = "done"
  /\ UNCHANGED <<args, i, embeddedLogo, loadedDocs>>
  /\ UNCHANGED appVars

\* ------------------------------------------------------------ editor compile
\* sourceFiles.find(f => f.id === fileId): the first match, or none
find(sourceFiles, fileId) ==
  LET hits == SelectSeq(sourceFiles, LAMBDA f : f.id = fileId)
  IN  IF hits = <<>> THEN <<>> ELSE <<hits[1]>>

\* mutant: the cache is never hit
cacheMiss(cache, fileId) == FALSE

\* let srcDoc = loadedDocs[page.fileId]; if (!srcDoc) ...
cacheHit(cache, fileId) == fileId \in cache

\* copiedPage.setRotation(degrees(currentRotation + page.rotation))
setRotation(page, rotation) == [page EXCEPT !.rot = @ + rotation]

\* mutant: the cache is kept from one call to the next
buildPdfKeepingCache(editorPages, sourceFiles) ==
  /\ pc = "idle"
  /\ pc' = "e_loop"
  /\ args' = [NoArgs EXCEPT !.op = "compile", !.editorPages = editorPages,
                            !.sourceFiles = sourceFiles]
  /\ doc' = EmptyDoc
  /\ i' = 0
  /\ events' = <<>>
  /\ result' = NoResult
  /\ UNCHANGED <<loadedDocs, embeddedLogo>>

\* the call: create the document and the empty cache
buildPdfFromEditor(editorPages, sourceFiles) ==
  /\ pc = "idle"
  /\ pc' = "e_loop"
  /\ args' = [NoArgs EXCEPT !.op = "compile", !.editorPages = editorPages,
                            !.sourceFiles = sourceFiles]
  /\ doc' = EmptyDoc
  /\ i' = 0
  /\ events' = <<>>
  /\ result' = NoResult
  /\ loadedDocs' = {}
  /\ UNCHANGED embeddedLogo

\* one iteration of the loop over the editor pages
compilePage ==
  /\ pc = "e_loop"
  /\ i < Len(args.editorPages)
  /\ LET page   == args.editorPages[i + 1]
         cached == cacheHit(loadedDocs, page.fileId)
         source == find(args.sourceFiles, page.fileId)
         copy(f) == copyPages("content", f, <<page.originalPageIndex>>)
         loads  == IF cached THEN <<>> ELSE <<Ev("load", <<"source", page.fileId>>)>>
     IN
       IF ~cached /\ source = <<>>
         THEN \* continue: the page is skipped
              /\ i' = i + 1
              /\ UNCHANGED <<pc, doc, events, result, loadedDocs>>
       ELSE IF ~cached /\ ~load(source[1])
         THEN \* PDFDocument.load rejects; nothing catches it
              /\ pc' = "done"
              /\ result' = [status |-> "error", bytes |-> <<>>, error |-> "ParseError"]
              /\ events' = events \o loads
              /\ UNCHANGED <<doc, i, loadedDocs>>
       ELSE IF page.originalPageIndex >= source[1].n
         THEN \* copyPages rejects an index the source does not have
              /\ pc' = "done"
              /\ result' = [status |-> "error", bytes |-> <<>>, error |-> "IndexOutOfRange"]
              /\ events' = events \o loads
              /\ loadedDocs' = loadedDocs \cup {page.fileId}
              /\ UNCHANGED <<doc, i>>
       ELSE /\ doc' = [doc EXCEPT !.pages = Append(@, setRotation(copy(source[1])[1], page.rotation))]
            /\ loadedDocs' = loadedDocs \cup {page.fileId}
            /\ events' = events \o loads
            /\ i' = i + 1
            /\ UNCHANGED <<pc, result>>
  /\ UNCHANGED <<args, embeddedLogo>>
  /\ UNCHANGED appVars

\* return await newPdf.save()
compileSave ==
  /\ pc = "e_loop"
  /\ i = Len(args.editorPages)
  /\ doc' = [doc EXCEPT !.saved = TRUE]
  /\ events' = Append(events, Ev("save", <<>>))
  /\ result' = [status |-> "ok", bytes |-> doc.pages, error |-> ""]
  /\ pc' = "done"
  /\ UNCHANGED <<args, i, embeddedLogo, loadedDocs>>
  /\ UNCHANGED appVars

\* ------------------------------------------------- application: the editor
\* the pages of a list of files
RECURSIVE SumPages(_)
SumPages(files) == IF files = <<>> THEN 0 ELSE files[1].n + SumPages(Tail(files))

\* { id: generateId(), file: f }
FileWithId(id, file) == [id |-> id, file |-> file]

\* the controls of the main content area are covered by the overlay while
\* the status is PROCESSING, and replaced by the result view on SUCCESS
ContentAreaShown == processingState.status \notin {"PROCESSING", "SUCCESS"}

\* the page grid of the editor, with Rotate All, Clear and the per-page buttons
EditorGridShown == ContentAreaShown /\ mode = "EDITOR" /\ Len(appEditorPages) > 0

\* mutant: the sum is not reduced modulo 360
rotate90NoWrap(rotation) == rotation + 90

\* (p.rotation + 90) % 360
rotate90(rotation) == (rotation + 90) % 360

\* the last rotations of a page, the newest last, at most five
Remember(h, rotation) ==
  IF Len(h) < 5 THEN Append(h, rotation) ELSE Append(Tail(h), rotation)

\* the page indices below n that are in the set, in ascending order
RECURSIVE Ascending(_, _)
Ascending(indices, n) ==
  IF n = 0 THEN <<>>
  ELSE Ascending(indices, n - 1) \o (IF n - 1 \in indices THEN <<n - 1>> ELSE <<>>)

\* generatePdfThumbnails(fileItem): for i = 1..numPages, an EditorPage is
\* pushed if canvas.getContext('2d') gave a context (contexts: the page
\* indices for which it did); a rejection when the bytes are not a PDF;
\* firstId is the first fresh id
generatePdfThumbnails(fileItem, firstId, contexts) ==
  LET rendered == Ascending(contexts, fileItem.file.n)
  IN  [j \in DOMAIN rendered |->
         [id |-> firstId + j - 1, fileId |-> fileItem.id, originalPageIndex |-> rendered[j],
          rotation |-> 0]]

\* handleEditorFilesSelect(files), up to the first await: the status, the ids
\* of the new source files, the source list
handleEditorFilesSelect(files) ==
  /\ ContentAreaShown /\ mode = "EDITOR"
  /\ task.kind = "none"
  /\ nextId + Len(files) + SumPages(files) <= MaxIds
  /\ LET newSourceFiles == [k \in 1..Len(files) |-> FileWithId(nextId + k, files[k])] IN
       /\ editorSourceFiles' = editorSourceFiles \o newSourceFiles
       /\ task' = [NoTask EXCEPT !.kind = "ingest", !.files = newSourceFiles]
  /\ nextId' = nextId + Len(files)
  /\ processingState' = [status |-> "PROCESSING", progress |-> FxFromInt(10)]
  /\ UNCHANGED <<mode, appCoverFile, appContentFiles, appEditorPages, mergedPdfUrl,
                 appProcessedFiles, log, history>>
  /\ UNCHANGED engineVars

\* one iteration of the loop over the new source files; a rejection goes to
\* the catch block
thumbnailFile ==
  /\ task.kind = "ingest"
  /\ task.i < Len(task.files)
  /\ LET fileItem == task.files[task.i + 1]
         count == task.i + 1
     IN
       IF load(fileItem.file)
         THEN /\ \E contexts \in SUBSET (0..(fileItem.file.n - 1)) :
                   /\ task' = [task EXCEPT !.i = count,
                                           !.pages = @ \o generatePdfThumbnails(
                                                             fileItem, nextId + 1, contexts)]
                   /\ nextId' = nextId + Cardinality(contexts)
              /\ processingState' =
                   [processingState EXCEPT
                      !.progress = DblAdd(FxFromInt(10),
                                          DblMul(80, DblDiv(count, Len(task.files))))]
         ELSE /\ task' = NoTask
              /\ nextId' = nextId
              /\ processingState' = [status |-> "ERROR", progress |-> FxFromInt(0)]
  /\ UNCHANGED <<mode, appCoverFile, appContentFiles, appEditorPages, editorSourceFiles,
                 mergedPdfUrl, appProcessedFiles, log, history>>
  /\ UNCHANGED engineVars

\* setEditorPages(prev => [...prev, ...allNewPages]); status IDLE
ingestFinish ==
  /\ task.kind = "ingest"
  /\ task.i = Len(task.files)
  /\ appEditorPages' = appEditorPages \o task.pages
  /\ history' = [id \in DOMAIN history \cup {task.pages[k].id : k \in DOMAIN task.pages} |->
                   IF id \in DOMAIN history THEN history[id] ELSE <<0>>]
  /\ processingState' = IdleState
  /\ task' = NoTask
  /\ UNCHANGED <<mode, appCoverFile, appContentFiles, editorSourceFiles, mergedPdfUrl,
                 appProcessedFiles, log, nextId>>
  /\ UNCHANGED engineVars

\* the per-page rotate button
rotatePage(id) ==
  /\ EditorGridShown
  /\ appEditorPages' =
       [k \in DOMAIN appEditorPages |->
          IF appEditorPages[k].id = id
            THEN [appEditorPages[k] EXCEPT !.rotation = rotate90(@)]
            ELSE appEditorPages[k]]
  /\ history' = [history EXCEPT ![id] = Remember(@, appEditorPages'[
                   CHOOSE k \in DOMAIN appEditorPages : appEditorPages[k].id = id].rotation)]
  /\ UNCHANGED <<mode, appCoverFile, appContentFiles, editorSourceFiles, processingState,
                 mergedPdfUrl, appProcessedFiles, task, log, nextId>>
  /\ UNCHANGED engineVars

\* the Rotate All button
rotateAllPages ==
  /\ EditorGridShown
  /\ appEditorPages' =
       [k \in DOMAIN appEditorPages |-> [appEditorPages[k] EXCEPT !.rotation = rotate90(@)]]
  /\ history' =
       [id \in DOMAIN history |->
          Remember(history[id], appEditorPages'[
            CHOOSE k \in DOMAIN appEditorPages : appEditorPages[k].id = id].rotation)]
  /\ UNCHANGED <<mode, appCoverFile, appContentFiles, editorSourceFiles, processingState,
                 mergedPdfUrl, appProcessedFiles, task, log, nextId>>
  /\ UNCHANGED engineVars

\* mutant: the pages left are renumbered from 0
removePageRenumbering(id) ==
  /\ EditorGridShown
  /\ appEditorPages' =
       LET left == SelectSeq(appEditorPages, LAMBDA p : p.id # id)
       IN  [k \in DOMAIN left |-> [left[k] EXCEPT !.originalPageIndex = k - 1]]
  /\ history' = [x \in DOMAIN history \ {id} |-> history[x]]
  /\ UNCHANGED <<mode, appCoverFile, appContentFiles, editorSourceFiles, processingState,
                 mergedPdfUrl, appProcessedFiles, task, log, nextId>>
  /\ UNCHANGED engineVars

\* the per-page remove button
removePage(id) ==
  /\ EditorGridShown
  /\ appEditorPages' = SelectSeq(appEditorPages, LAMBDA p : p.id # id)
  /\ history' = [x \in DOMAIN history \ {id} |-> history[x]]
  /\ UNCHANGED <<mode, appCoverFile, appContentFiles, editorSourceFiles, processingState,
                 mergedPdfUrl, appProcessedFiles, task, log, nextId>>
  /\ UNCHANGED engineVars

\* the Clear button of the editor: setEditorPages([])
clearEditorPages ==
  /\ EditorGridShown
  /\ appEditorPages' = <<>>
  /\ history' = <<>>
  /\ UNCHANGED <<mode, appCoverFile, appContentFiles, editorSourceFiles, processingState,
                 mergedPdfUrl, appProcessedFiles, task, log, nextId>>
  /\ UNCHANGED engineVars

\* what clearAll() sets
clearAllSets ==
  /\ appCoverFile' = <<>>
  /\ appContentFiles' = <<>>
  /\ appEditorPages' = <<>>
  /\ editorSourceFiles' = <<>>
  /\ processingState' = IdleState
  /\ mergedPdfUrl' = <<>>
  /\ appProcessedFiles' = <<>>
  /\ history' = <<>>

\* the record of a run is kept until the application is cleared after it
forgetRun == IF task.kind = "none" THEN <<>> ELSE log

\* the clearAll buttons (mobile header, "Process More Files"): under the
\* overlay while PROCESSING
clearAll ==
  /\ processingState.status # "PROCESSING"
  /\ clearAllSets
  /\ log' = forgetRun
  /\ UNCHANGED <<mode, task, nextId>>
  /\ UNCHANGED engineVars

\* a mode button (sidebar, bottom dock): setMode(item.id); clearAll()
switchMode(m) ==
  /\ mode' = m
  /\ clearAllSets
  /\ log' = forgetRun
  /\ UNCHANGED <<task, nextId>>
  /\ UNCHANGED engineVars

\* ------------------------------------------- application: batch processing
\* useState<WatermarkConfig>({ diagonal: true, bottom: true, top: false,
\* crossed: false, ..., logoFile: null, ... })
InitialWmConfig ==
  [diagonal |-> TRUE, bottom |-> TRUE, top |-> FALSE, crossed |-> FALSE,
   textOpacity |-> DblDiv(1, 5), logoFile |-> <<>>]

\* useState<PdfMetadata>({ title: '', author: '' })
InitialMetadata == <<[title |-> "", author |-> ""]>>

\* the upload zones for cover and content (modes MERGE and WATERMARK_ONLY)
UploadZonesShown == ContentAreaShown /\ mode # "EDITOR"

\* handleContentSelect(files)
handleContentSelect(files) ==
  /\ UploadZonesShown
  /\ nextId + Len(files) <= MaxIds
  /\ appContentFiles' =
       appContentFiles \o [k \in 1..Len(files) |-> FileWithId(nextId + k, files[k])]
  /\ nextId' = nextId + Len(files)
  /\ UNCHANGED <<mode, appCoverFile, appEditorPages, editorSourceFiles, processingState,
                 mergedPdfUrl, appProcessedFiles, task, log, history>>
  /\ UNCHANGED engineVars

\* handleCoverSelect(files): the first file replaces the cover; no handler
\* reads the id of the cover item, which is CoverId here
handleCoverSelect(files) ==
  /\ UploadZonesShown
  /\ Len(files) > 0
  /\ appCoverFile' = <<FileWithId(CoverId, files[1])>>
  /\ UNCHANGED <<mode, appContentFiles, appEditorPages, editorSourceFiles, processingState,
                 mergedPdfUrl, appProcessedFiles, task, log, nextId, history>>
  /\ UNCHANGED engineVars

\* isReady, outside the editor
isReady == IF mode = "EDITOR" THEN Len(appEditorPages) > 0 ELSE Len(appContentFiles) > 0

\* (i / contentFiles.length) * 100
batchProgress(idx, total) == DblMul(100, DblDiv(idx, total))

\* coverFile[0]?.file
firstFile(files) == IF Len(files) > 0 THEN <<files[1].file>> ELSE <<>>

\* mutant: the result carries the id of the first content file
processedFileOfFirst(files, idx, bytes) ==
  [id |-> files[1].id, originalName |-> files[1].file.id, processedData |-> bytes]

\* results.push({ id, originalName, ..., processedData: bytes, ... }); a file
\* is named by the id of its descriptor
processedFile(files, idx, bytes) ==
  [id |-> files[idx + 1].id, originalName |-> files[idx + 1].file.id, processedData |-> bytes]

\* handleProcess in mode WATERMARK_ONLY, up to the first await (the delay):
\* the handler keeps the content files, the cover and the configuration of
\* the render it was created in
handleProcessBatch ==
  /\ ContentAreaShown /\ isReady /\ mode = "WATERMARK_ONLY"
  /\ task.kind = "none"
  /\ processingState' = [status |-> "PROCESSING", progress |-> FxFromInt(0)]
  /\ task' = [NoTask EXCEPT !.kind = "batch", !.step = "loop", !.files = appContentFiles,
                            !.cover = appCoverFile]
  /\ log' = <<Ev("run", appContentFiles)>>
  /\ UNCHANGED <<mode, appCoverFile, appContentFiles, appEditorPages, editorSourceFiles,
                 mergedPdfUrl, appProcessedFiles, nextId, history>>
  /\ UNCHANGED engineVars

\* the head of one iteration: publish the progress, call processBatchFile
batchNextFile ==
  /\ task.kind = "batch" /\ task.step = "loop"
  /\ task.i < Len(task.files)
  /\ pc = "idle"
  /\ processingState' = [status |-> "PROCESSING",
                          progress |-> batchProgress(task.i, Len(task.files))]
  /\ processBatchFile(task.files[task.i + 1].file, firstFile(task.cover), InitialWmConfig,
                      InitialMetadata)
  /\ task' = [task EXCEPT !.step = "await"]
  /\ log' = log \o <<Ev("progress", batchProgress(task.i, Len(task.files))),
                      Ev("start", task.i)>>
  /\ UNCHANGED <<mode, appCoverFile, appContentFiles, appEditorPages, editorSourceFiles,
                 mergedPdfUrl, appProcessedFiles, nextId, history>>

\* mutant: the catch block publishes the results pushed so far
catchPublishesPartial(results) == results

\* the catch block of handleProcess sets the status and a toast only: the
\* processed files stay what they were
catchProcessedFiles(results) == appProcessedFiles

\* processBatchFile has returned or thrown: push the result and go on, or
\* leave the loop for the catch block; the locals of the call are gone
batchFileReturned ==
  /\ task.kind = "batch" /\ task.step = "await"
  /\ pc = "done"
  /\ pc' = "idle"
  /\ args' = NoArgs
  /\ doc' = EmptyDoc
  /\ events' = <<>>
  /\ result' = NoResult
  /\ embeddedLogo' = FALSE
  /\ IF result.status = "ok"
       THEN /\ task' = [task EXCEPT !.step = "loop", !.i = @ + 1,
                                    !.results = Append(@, processedFile(task.files, task.i,
                                                                        result.bytes))]
            /\ log' = Append(log, Ev("end", task.i))
            /\ UNCHANGED <<processingState, appProcessedFiles>>
       ELSE /\ task' = NoTask
            /\ log' = Append(log, Ev("fail", task.i))
            /\ processingState' = [status |-> "ERROR", progress |-> FxFromInt(0)]
            /\ appProcessedFiles' = catchProcessedFiles(task.results)
  /\ UNCHANGED <<mode, appCoverFile, appContentFiles, appEditorPages, editorSourceFiles,
                 mergedPdfUrl, nextId, history>>
  /\ UNCHANGED <<i, loadedDocs>>

\* after the loop: setProcessedFiles(results); status SUCCESS
batchFinish ==
  /\ task.kind = "batch" /\ task.step = "loop"
  /\ task.i = Len(task.files)
  /\ appProcessedFiles' = task.results
  /\ processingState' = [status |-> "SUCCESS", progress |-> FxFromInt(100)]
  /\ task' = NoTask
  /\ log' = Append(log, Ev("publish", task.results))
  /\ UNCHANGED <<mode, appCoverFile, appContentFiles, appEditorPages, editorSourceFiles,
                 mergedPdfUrl, nextId, history>>
  /\ UNCHANGED engineVars

\* ------------------------- application: single merge, editor save, merge all
\* contentFiles.map(f => f.file)
fileList(files) == [k \in DOMAIN files |-> files[k].file]

\* the source files as buildPdfFromEditor reads them: f.id is the id of the
\* item, f.file the bytes it loads
sourceItems(files) == [k \in DOMAIN files |-> [files[k].file EXCEPT !.id = files[k].id]]

\* processedFiles.map(f => f.processedData)
processedArrays(files) == [k \in DOMAIN files |-> Buffer(files[k].processedData)]

\* the outcome has been taken: the locals of the engine call are gone
engineCallOver ==
  /\ pc' = "idle"
  /\ args' = NoArgs
  /\ doc' = EmptyDoc
  /\ events' = <<>>
  /\ result' = NoResult
  /\ embeddedLogo' = FALSE
  /\ UNCHANGED <<i, loadedDocs>>

\* handleProcess in mode MERGE (cover optional), up to the first await (the
\* delay); the progress callback changes the progress only, never the status
handleProcessMerge ==
  /\ ContentAreaShown /\ isReady /\ mode = "MERGE"
  /\ task.kind = "none"
  /\ processingState' = [status |-> "PROCESSING", progress |-> FxFromInt(0)]
  /\ task' = [NoTask EXCEPT !.kind = "merge", !.step = "delay", !.files = appContentFiles,
                            !.cover = appCoverFile]
  /\ UNCHANGED <<mode, appCoverFile, appContentFiles, appEditorPages, editorSourceFiles,
                 mergedPdfUrl, appProcessedFiles, log, nextId, history>>
  /\ UNCHANGED engineVars

\* after the delay: the call of mergeAndWatermarkPdfs with the cover, the
\* content files and the default-cover toggle of the render
mergeAfterDelay ==
  /\ task.kind = "merge" /\ task.step = "delay"
  /\ pc = "idle"
  /\ \E useDefaultCover \in BOOLEAN :
       mergeAndWatermarkPdfs(firstFile(task.cover), fileList(task.files), "returns",
                             InitialMetadata, InitialWmConfig.logoFile, useDefaultCover)
  /\ task' = [task EXCEPT !.step = "await"]
  /\ UNCHANGED <<mode, appCoverFile, appContentFiles, appEditorPages, editorSourceFiles,
                 processingState, mergedPdfUrl, appProcessedFiles, log, nextId, history>>

\* mergeAndWatermarkPdfs has returned or thrown: the URL and SUCCESS, or the
\* catch block
handleMergeReturned ==
  /\ task.kind = "merge" /\ task.step = "await"
  /\ pc = "done"
  /\ engineCallOver
  /\ IF result.status = "ok"
       THEN /\ mergedPdfUrl' = <<result.bytes>>
            /\ processingState' = [status |-> "SUCCESS", progress |-> FxFromInt(100)]
       ELSE /\ mergedPdfUrl' = mergedPdfUrl
            /\ processingState' = [status |-> "ERROR", progress |-> FxFromInt(0)]
  /\ task' = NoTask
  /\ UNCHANGED <<mode, appCoverFile, appContentFiles, appEditorPages, editorSourceFiles,
                 appProcessedFiles, log, nextId, history>>

\* mutant: the cover-required version enables its button as the
\* cover-optional version does
isReadyAnyContent == Len(appContentFiles) > 0

\* isReady of the cover-required version
isReadyCoverRequired ==
  IF mode = "MERGE" THEN Len(appCoverFile) > 0 /\ Len(appContentFiles) > 0
  ELSE Len(appContentFiles) > 0

\* handleProcess of the cover-required version, up to the first await
handleProcessCoverRequired ==
  /\ ContentAreaShown /\ isReadyCoverRequired /\ mode # "EDITOR"
  /\ task.kind = "none"
  /\ processingState' = [status |-> "PROCESSING", progress |-> FxFromInt(0)]
  /\ task' = [NoTask EXCEPT !.kind = "coverRequired", !.step = mode,
                            !.files = appContentFiles, !.cover = appCoverFile]
  /\ log' = <<Ev("run", appContentFiles)>>
  /\ UNCHANGED <<mode, appCoverFile, appContentFiles, appEditorPages, editorSourceFiles,
                 mergedPdfUrl, appProcessedFiles, nextId, history>>
  /\ UNCHANGED engineVars

\* after the delay of the cover-required version: return at once when a file
\* list is empty, else the merge call or the batch loop
afterDelayCoverRequired ==
  /\ task.kind = "coverRequired"
  /\ pc = "idle"
  /\ IF task.step = "MERGE"
       THEN IF Len(task.cover) = 0 \/ Len(task.files) = 0
              THEN /\ task' = NoTask
                   /\ UNCHANGED engineVars
              ELSE /\ mergeAndWatermarkPdfs(<<task.cover[1].file>>, fileList(task.files),
                                            "returns", InitialMetadata, <<>>, FALSE)
                   /\ task' = [task EXCEPT !.kind = "merge", !.step = "await"]
       ELSE IF Len(task.files) = 0
              THEN /\ task' = NoTask
                   /\ UNCHANGED engineVars
              ELSE /\ task' = [task EXCEPT !.kind = "batch", !.step = "loop"]
                   /\ UNCHANGED engineVars
  /\ UNCHANGED <<mode, appCoverFile, appContentFiles, appEditorPages, editorSourceFiles,
                 processingState, mergedPdfUrl, appProcessedFiles, log, nextId, history>>

\* handleEditorSave, up to its await: the status, the call of
\* buildPdfFromEditor
handleEditorSave ==
  /\ ContentAreaShown /\ isReady /\ mode = "EDITOR"
  /\ task.kind = "none"
  /\ processingState' = [status |-> "PROCESSING", progress |-> FxFromInt(30)]
  /\ buildPdfFromEditor(appEditorPages, sourceItems(editorSourceFiles))
  /\ task' = [NoTask EXCEPT !.kind = "compile", !.step = "await"]
  /\ UNCHANGED <<mode, appCoverFile, appContentFiles, appEditorPages, editorSourceFiles,
                 mergedPdfUrl, appProcessedFiles, log, nextId, history>>

\* buildPdfFromEditor has returned or thrown
editorSaveReturned ==
  /\ task.kind = "compile"
  /\ pc = "done"
  /\ engineCallOver
  /\ IF result.status = "ok"
       THEN /\ mergedPdfUrl' = <<result.bytes>>
            /\ processingState' = [status |-> "SUCCESS", progress |-> FxFromInt(100)]
       ELSE /\ mergedPdfUrl' = mergedPdfUrl
            /\ processingState' = [status |-> "ERROR", progress |-> FxFromInt(0)]
  /\ task' = NoTask
  /\ UNCHANGED <<mode, appCoverFile, appContentFiles, appEditorPages, editorSourceFiles,
                 appProcessedFiles, log, nextId, history>>

\* handleBatchMergeDownload (the button of the batch result view), up to the
\* first await
handleBatchMergeDownload ==
  /\ processingState.status = "SUCCESS" /\ Len(appProcessedFiles) > 0
  /\ task.kind = "none"
  /\ processingState' = [status |-> "PROCESSING", progress |-> FxFromInt(40)]
  /\ task' = [NoTask EXCEPT !.kind = "mergeAll", !.step = "delay",
                            !.results = appProcessedFiles]
  /\ UNCHANGED <<mode, appCoverFile, appContentFiles, appEditorPages, editorSourceFiles,
                 mergedPdfUrl, appProcessedFiles, log, nextId, history>>
  /\ UNCHANGED engineVars

\* after the delay: the call of mergeProcessedFiles
batchMergeAfterDelay ==
  /\ task.kind = "mergeAll" /\ task.step = "delay"
  /\ pc = "idle"
  /\ mergeProcessedFiles(processedArrays(task.results), <<>>)
  /\ task' = [task EXCEPT !.step = "await"]
  /\ UNCHANGED <<mode, appCoverFile, appContentFiles, appEditorPages, editorSourceFiles,
                 processingState, mergedPdfUrl, appProcessedFiles, log, nextId, history>>

\* mergeProcessedFiles has returned or thrown: SUCCESS either way, so that the
\* list of results stays visible
batchMergeReturned ==
  /\ task.kind = "mergeAll" /\ task.step = "await"
  /\ pc = "done"
  /\ engineCallOver
  /\ processingState' = [status |-> "SUCCESS", progress |-> FxFromInt(100)]
  /\ task' = NoTask
  /\ UNCHANGED <<mode, appCoverFile, appContentFiles, appEditorPages, editorSourceFiles,
                 mergedPdfUrl, appProcessedFiles, log, nextId, history>>


\* --------------------------------------------------------- specifications
Init ==
  /\ pc = "idle"
  /\ args = NoArgs
  /\ doc = EmptyDoc
  /\ i = 0
  /\ events = <<>>
  /\ result = NoResult
  /\ embeddedLogo = FALSE
  /\ loadedDocs = {}
  /\ mode = "MERGE"
  /\ appCoverFile = <<>>
  /\ appContentFiles = <<>>
  /\ appEditorPages = <<>>
  /\ editorSourceFiles = <<>>
  /\ processingState = IdleState
  /\ mergedPdfUrl = <<>>
  /\ appProcessedFiles = <<>>
  /\ task = NoTask
  /\ log = <<>>
  /\ nextId = 0
  /\ history = <<>>

CallMerge ==
  /\ pc = "idle"
  /\ \E coverFile \in Optional(PdfFiles({CoverId})), contentFiles \in FileLists(MaxFiles),
        defaultCoverLogo \in Optional(LogoFiles), useDefaultCover \in BOOLEAN :
          mergeAndWatermarkPdfs(coverFile, contentFiles, "returns", <<>>, defaultCoverLogo,
                                useDefaultCover)
  /\ UNCHANGED appVars

Next ==
  \/ CallMerge
  \/ mergeCoverFile
  \/ mergeDefaultCover
  \/ mergeNoCover
  \/ mergeContentFile
  \/ mergeSave

Spec == Init /\ [][Next]_vars

BatchConfigs ==
  [diagonal : BOOLEAN, bottom : BOOLEAN, top : BOOLEAN, crossed : BOOLEAN,
   textOpacity : {DblDiv(1, 5)}, logoFile : Optional(LogoFiles)]

CallBatch ==
  /\ pc = "idle"
  /\ \E contentFile \in PdfFiles({1}), coverFile \in Optional(PdfFiles({CoverId})),
        config \in BatchConfigs :
          processBatchFile(contentFile, coverFile, config, <<>>)
  /\ UNCHANGED appVars

NextBatch ==
  \/ CallBatch
  \/ batchEmbedLogo
  \/ batchCoverFile
  \/ batchNoCover
  \/ batchContent

SpecBatch == Init /\ [][NextBatch]_vars

CallCompile ==
  /\ pc = "idle"
  /\ \E editorPages \in EditorPageLists, sourceFiles \in SourceLists :
       buildPdfFromEditor(editorPages, sourceFiles)
  /\ UNCHANGED appVars

NextEditor ==
  \/ CallCompile
  \/ compilePage
  \/ compileSave

SpecEditor == Init /\ [][NextEditor]_vars

\* compiles of lists of up to MaxRefs references (page 0, no rotation) to
\* the sources, in every interleaving
RefLists ==
  UNION {[1..len -> [fileId : SourceIds, originalPageIndex : {0}, rotation : {0}]] :
           len \in 0..MaxRefs}

CallCompileRefs ==
  /\ pc = "idle"
  /\ \E editorPages \in RefLists, sourceFiles \in SourceLists :
       buildPdfFromEditor(editorPages, sourceFiles)
  /\ UNCHANGED appVars

NextCache ==
  \/ CallCompileRefs
  \/ compilePage
  \/ compileSave

SpecCache == Init /\ [][NextCache]_vars

\* up to MaxCalls compile calls one after the other, each on a list of up to
\* MaxEditorPages references; the cache each call ended with is recorded
RecompileLists == {editorPages \in RefLists : Len(editorPages) <= MaxEditorPages}

CallRecompile ==
  /\ pc = "idle"
  /\ Len(log) < MaxCalls
  /\ \E editorPages \in RecompileLists, sourceFiles \in SourceLists :
       buildPdfFromEditor(editorPages, sourceFiles)
  /\ UNCHANGED appVars

\* the caller has the outcome of the call
compileReturned ==
  /\ pc = "done" /\ args.op = "compile"
  /\ pc' = "idle"
  /\ log' = Append(log, Ev("compiled", loadedDocs))
  /\ UNCHANGED <<args, doc, i, events, result, embeddedLogo, loadedDocs>>
  /\ UNCHANGED <<mode, appCoverFile, appContentFiles, appEditorPages, editorSourceFiles,
                 processingState, mergedPdfUrl, appProcessedFiles, task, nextId, history>>

NextRecompile ==
  \/ CallRecompile
  \/ compilePage
  \/ compileSave
  \/ compileReturned

SpecRecompile == Init /\ [][NextRecompile]_vars

\* the combiner on every list of up to MaxBuffers processed buffers, and
\* again on its own output followed by further buffers
BufferLists(ids, maxLen) ==
  UNION {{[k \in 1..len |-> ProcessedBuffer(s[k])] :
            s \in {t \in [1..len -> PdfFiles(ids)] :
                     \A a, b \in 1..len : a # b => t[a].id # t[b].id}} :
         len \in 1..maxLen}

BufferIds(buffers) ==
  UNION {{buffers[k].pages[j].file : j \in DOMAIN buffers[k].pages} : k \in DOMAIN buffers}

CallCombine ==
  /\ pc = "idle"
  /\ \E processedFiles \in BufferLists(1..MaxBuffers, MaxBuffers) :
       mergeProcessedFiles(processedFiles, <<>>)
  /\ UNCHANGED appVars

CallCombineAgain ==
  /\ pc = "done"
  /\ args.op = "combine" /\ result.status = "ok" /\ args.priorFiles = <<>>
  /\ Len(args.processedFiles) < MaxBuffers
  /\ \E rest \in BufferLists((1..MaxBuffers) \ BufferIds(args.processedFiles),
                              MaxBuffers - Len(args.processedFiles)) :
       mergeProcessedFiles(<<Buffer(result.bytes)>> \o rest, args.processedFiles)
  /\ UNCHANGED appVars

NextCombine ==
  \/ CallCombine
  \/ CallCombineAgain
  \/ combineBuffer
  \/ combineSave

SpecCombine == Init /\ [][NextCombine]_vars

\* the watermark engine on pages of several sizes, with fonts of several
\* widths, every configuration, with and without a logo image
PageSizes ==
  {A4,
   [width |-> A4.height, height |-> A4.width],
   [width |-> Pt(612), height |-> Pt(792)]}

Fonts == {HelveticaBold, [widthAt10 |-> Pt(60)]}

CallWatermark ==
  /\ pc = "idle"
  /\ \E size \in PageSizes, font \in Fonts, config \in BatchConfigs, logoImage \in BOOLEAN :
       watermarkTarget(size, font, config, logoImage)
  /\ UNCHANGED appVars

NextWatermark ==
  \/ CallWatermark
  \/ watermarkPage

SpecWatermark == Init /\ [][NextWatermark]_vars

\* the watermark engine under every text opacity of the grid: 0, and the
\* multiples of 1 / OpacityGrid from 1/16 to 1, as doubles
OpacitySteps == {0} \cup {k \in 1..OpacityGrid : 16 * k >= OpacityGrid}

OpacityConfigs ==
  [diagonal : BOOLEAN, bottom : BOOLEAN, top : BOOLEAN, crossed : BOOLEAN,
   textOpacity : {DblDiv(k, OpacityGrid) : k \in OpacitySteps}, logoFile : {<<>>}]

CallWatermarkOpacity ==
  /\ pc = "idle"
  /\ \E config \in OpacityConfigs : watermarkTarget(A4, HelveticaBold, config, FALSE)
  /\ UNCHANGED appVars

NextOpacity ==
  \/ CallWatermarkOpacity
  \/ watermarkPage

SpecOpacity == Init /\ [][NextOpacity]_vars

\* two merges one after the other on the same files, each with a progress
\* callback that returns or with one that throws; the outcome of each is
\* recorded
Callbacks == {"returns", "throws"}

CallMergeCallback ==
  /\ pc = "idle"
  /\ Len(log) < 2
  /\ \E coverFile \in Optional(PdfFiles({CoverId})), contentFile \in PdfFiles({1}),
        onProgress \in Callbacks, useDefaultCover \in BOOLEAN :
          /\ Len(log) = 1 =>
               /\ coverFile = log[1].v.coverFile
               /\ <<contentFile>> = log[1].v.contentFiles
               /\ useDefaultCover = log[1].v.useDefaultCover
          /\ mergeAndWatermarkPdfs(coverFile, <<contentFile>>, onProgress, <<>>, <<>>,
                                   useDefaultCover)
  /\ UNCHANGED appVars

\* the caller has the outcome of the merge
mergeReturned ==
  /\ pc = "done" /\ args.op = "merge"
  /\ pc' = "idle"
  /\ log' = Append(log, Ev("merged", [coverFile |-> args.coverFile,
                                       contentFiles |-> args.contentFiles,
                                       useDefaultCover |-> args.useDefaultCover,
                                       onProgress |-> args.onProgress,
                                       status |-> result.status, bytes |-> result.bytes]))
  /\ UNCHANGED <<args, doc, i, events, result, embeddedLogo, loadedDocs>>
  /\ UNCHANGED <<mode, appCoverFile, appContentFiles, appEditorPages, editorSourceFiles,
                 processingState, mergedPdfUrl, appProcessedFiles, task, nextId, history>>

NextCallback ==
  \/ CallMergeCallback
  \/ mergeCoverFile
  \/ mergeDefaultCover
  \/ mergeNoCover
  \/ mergeCallbackThrows
  \/ mergeContentFile
  \/ mergeSave
  \/ mergeReturned

SpecCallback == Init /\ [][NextCallback]_vars

\* the merge and the batch pipeline on one content file, with every cover
\* choice, without metadata and with every metadata object
Metadatas == [title : {"", "Notes"}, author : {"", "VTU"}]

CallMergeMetadata ==
  /\ pc = "idle"
  /\ \E coverFile \in Optional(PdfFiles({CoverId})), contentFile \in PdfFiles({1}),
        metadata \in Optional(Metadatas), useDefaultCover \in BOOLEAN :
          mergeAndWatermarkPdfs(coverFile, <<contentFile>>, "returns", metadata, <<>>,
                                useDefaultCover)
  /\ UNCHANGED appVars

CallBatchMetadata ==
  /\ pc = "idle"
  /\ \E coverFile \in Optional(PdfFiles({CoverId})), contentFile \in PdfFiles({1}),
        metadata \in Optional(Metadatas) :
          processBatchFile(contentFile, coverFile, InitialWmConfig, metadata)
  /\ UNCHANGED appVars

NextMetadata ==
  \/ CallMergeMetadata
  \/ CallBatchMetadata
  \/ mergeCoverFile
  \/ mergeDefaultCover
  \/ mergeNoCover
  \/ mergeContentFile
  \/ mergeSave
  \/ batchEmbedLogo
  \/ batchCoverFile
  \/ batchNoCover
  \/ batchContent

SpecMetadata == Init /\ [][NextMetadata]_vars

\* the editor of the application: ingest, rotate, remove, clear, mode switch
Modes == {"MERGE", "WATERMARK_ONLY", "EDITOR"}

PickedFiles == UNION {[1..len -> SourceFile(1) \cup SourceFile(2)] : len \in 1..MaxPicked}

PickEditorFiles ==
  /\ task.kind = "none" /\ ContentAreaShown /\ mode = "EDITOR" /\ nextId < MaxIds
  /\ \E files \in PickedFiles : handleEditorFilesSelect(files)

RotatePage == \E k \in DOMAIN appEditorPages : rotatePage(appEditorPages[k].id)

RemovePage == \E k \in DOMAIN appEditorPages : removePage(appEditorPages[k].id)

SwitchMode == \E m \in Modes : switchMode(m)

NextEditorUi ==
  \/ PickEditorFiles
  \/ thumbnailFile
  \/ ingestFinish
  \/ RotatePage
  \/ rotateAllPages
  \/ RemovePage
  \/ clearEditorPages
  \/ clearAll
  \/ SwitchMode

SpecEditorUi == Init /\ [][NextEditorUi]_vars

\* batch processing from the application: pick files, process, clear
UploadedFiles == {f \in PdfFiles({1, 2}) : f.n = 1 \/ (f.n = 0 /\ f.id = 1)}

PickContentFiles ==
  /\ UploadZonesShown /\ nextId < MaxIds /\ Len(appContentFiles) < MaxFiles
  /\ \E files \in UNION {[1..len -> UploadedFiles] : len \in 1..MaxPicked} :
       /\ Len(appContentFiles) + Len(files) <= MaxFiles
       /\ handleContentSelect(files)

PickCoverFile ==
  /\ UploadZonesShown
  /\ \E f \in UploadedFiles : handleCoverSelect(<<f>>)

NextBatchRun ==
  \/ PickContentFiles
  \/ PickCoverFile
  \/ handleProcessBatch
  \/ batchNextFile
  \/ batchEmbedLogo
  \/ batchCoverFile
  \/ batchNoCover
  \/ batchContent
  \/ batchFileReturned
  \/ batchFinish
  \/ clearAll
  \/ SwitchMode

SpecBatchRun == Init /\ [][NextBatchRun]_vars

\* every handler that sets the status PROCESSING, in one application: at most
\* MaxHandlerFiles content files, each with one page, and as many source
\* files, each with one page or unparseable
HandlerFiles == {f \in UploadedFiles : f.id = 1 /\ f.ok}

HandlerSources == {f \in UploadedFiles : f.id = 1}

PickHandlerContent ==
  /\ UploadZonesShown /\ nextId < MaxIds /\ Len(appContentFiles) < MaxHandlerFiles
  /\ \E f \in HandlerFiles : handleContentSelect(<<f>>)

PickHandlerCover ==
  /\ UploadZonesShown
  /\ \E f \in HandlerFiles : handleCoverSelect(<<f>>)

PickHandlerSource ==
  /\ task.kind = "none" /\ ContentAreaShown /\ mode = "EDITOR" /\ nextId < MaxIds
  /\ Len(editorSourceFiles) < MaxHandlerFiles
  /\ \E f \in HandlerSources : handleEditorFilesSelect(<<f>>)

\* the engine call a handler awaits returns or throws; the handlers pass
\* on what it returns without reading it
engineCallSettles ==
  /\ pc \notin {"idle", "done"}
  /\ pc' = "done"
  /\ \E status \in {"ok", "error"} :
       result' = [status |-> status, bytes |-> <<>>,
                  error |-> IF status = "ok" THEN "" ELSE "ParseError"]
  /\ UNCHANGED <<args, doc, i, events, embeddedLogo, loadedDocs>>
  /\ UNCHANGED appVars

\* the continuations of the handlers, and the engine calls they await
HandlerStep ==
  \/ mergeAfterDelay
  \/ afterDelayCoverRequired
  \/ handleMergeReturned
  \/ batchNextFile
  \/ batchFileReturned
  \/ batchFinish
  \/ editorSaveReturned
  \/ batchMergeAfterDelay
  \/ batchMergeReturned
  \/ thumbnailFile
  \/ ingestFinish
  \/ engineCallSettles

NextHandlers ==
  \/ PickHandlerContent
  \/ PickHandlerCover
  \/ PickHandlerSource
  \/ handleProcessMerge
  \/ handleProcessCoverRequired
  \/ handleProcessBatch
  \/ handleEditorSave
  \/ handleBatchMergeDownload
  \/ HandlerStep
  \/ clearAll
  \/ SwitchMode

\* the event loop runs the continuation of every promise that has settled,
\* and every engine call returns or throws
SpecHandlers == Init /\ [][NextHandlers]_vars /\ WF_vars(HandlerStep)

\* the merge and the batch pipeline together
NextEngine == Next \/ NextBatch

SpecEngine == Init /\ [][NextEngine]_vars

\* merges of many one-page files: every file count up to ManyFiles, every
\* cover choice
OnePageFiles(n) == [k \in 1..n |-> [id |-> k, n |-> 1, ok |-> TRUE, rot |-> 0, size |-> A4]]

CallMergeMany ==
  /\ pc = "idle"
  /\ \E n \in 0..ManyFiles, coverFile \in Optional(PdfFiles({CoverId})),
        useDefaultCover \in BOOLEAN :
          /\ coverFile # <<>> => (coverFile[1].n = 1 /\ ~useDefaultCover)
          /\ mergeAndWatermarkPdfs(coverFile, OnePageFiles(n), "returns", <<>>, <<>>,
                                   useDefaultCover)
  /\ UNCHANGED appVars

NextMany ==
  \/ CallMergeMany
  \/ mergeCoverFile
  \/ mergeDefaultCover
  \/ mergeNoCover
  \/ mergeContentFile
  \/ mergeSave

SpecMany == Init /\ [][NextMany]_vars

\* ----------------------------------------------------------- claim helpers
CountEvents(e) == Cardinality({k \in DOMAIN events : events[k].e = e})

CountDraws(page, op, stamp) ==
  Cardinality({k \in DOMAIN page.draws : page.draws[k].op = op /\ page.draws[k].stamp = stamp})

MergeOk == args.op = "merge" /\ result.status = "ok"

CoverPageCount ==
  IF Len(args.coverFile) > 0 THEN args.coverFile[1].n
  ELSE IF args.useDefaultCover THEN 1
  ELSE 0

\* position of the content file with this id in the input list
FilePos(id) == CHOOSE k \in DOMAIN args.contentFiles : args.contentFiles[k].id = id

FileRank(page) == IF page.src = "content" THEN FilePos(page.file) ELSE 0

Before(p, q) ==
  \/ FileRank(p) < FileRank(q)
  \/ FileRank(p) = FileRank(q) /\ p.idx < q.idx

\* the input files of a merge in the order the code reads them
InputFiles == args.coverFile \o args.contentFiles

SomeInputUnparseable == \E k \in DOMAIN InputFiles : ~InputFiles[k].ok

FirstUnparseable == CHOOSE k \in DOMAIN InputFiles :
  ~InputFiles[k].ok /\ \A j \in 1..(k - 1) : InputFiles[j].ok

\* ------------------------------------------------------------------ claims
\* C1: a successful single-output merge returns coverPageCount + the sum of the
\* content files' page counts pages; the cover count is the cover file's page
\* count, 1 for a synthesized cover, 0 when there is no cover.
C1_PageCount ==
  MergeOk => Len(result.bytes) = CoverPageCount + SumPages(args.contentFiles)

C1_Witness ==
  /\ MergeOk
  /\ Len(args.coverFile) > 0 /\ args.coverFile[1].n = 2
  /\ Len(args.contentFiles) = 2
  /\ args.contentFiles[1].n = 3 /\ args.contentFiles[2].n = 1
  /\ Len(result.bytes) = 6

\* C2: in the merged document the cover pages come first, the pages of content
\* file i come before those of content file j for i < j in the input list, and
\* the pages of one file are in the file's own order.
C2_OrderPreserved ==
  args.op = "merge" =>
    \A a, b \in DOMAIN doc.pages : a < b => Before(doc.pages[a], doc.pages[b])

C2_Witness ==
  /\ MergeOk
  /\ Len(args.coverFile) > 0
  /\ Len(args.contentFiles) = 2
  /\ args.contentFiles[1].id > args.contentFiles[2].id
  /\ args.contentFiles[1].n >= 2 /\ args.contentFiles[2].n >= 2
  /\ result.bytes = doc.pages

\* C3: in a merge a page copied from the cover file carries no draw, and a page
\* copied from a content file carries exactly one diagonal and one bottom text
\* stamp and nothing else (no top, no crossed, no logo).
C3_StrictStamps ==
  args.op = "merge" =>
    \A k \in DOMAIN doc.pages :
      /\ doc.pages[k].src = "cover" => doc.pages[k].draws = <<>>
      /\ doc.pages[k].src = "content" =>
           /\ Len(doc.pages[k].draws) = 2
           /\ CountDraws(doc.pages[k], "text", "diagonal") = 1
           /\ CountDraws(doc.pages[k], "text", "bottom") = 1
           /\ CountDraws(doc.pages[k], "text", "top") = 0
           /\ CountDraws(doc.pages[k], "text", "crossed") = 0
           /\ CountDraws(doc.pages[k], "image", "logo") = 0

C3_Witness ==
  /\ MergeOk
  /\ Len(args.coverFile) > 0 /\ args.coverFile[1].n = 2
  /\ Len(args.contentFiles) = 2
  /\ args.contentFiles[1].n = 3 /\ args.contentFiles[2].n = 1
  /\ \A k \in 1..2 : result.bytes[k].src = "cover"
  /\ \A k \in 3..6 : result.bytes[k].src = "content"

\* C4: a supplied cover and the synthesized cover exclude each other: with a
\* cover file the synthesizer is never invoked whatever the flag; without one
\* and with the flag it is invoked exactly once; with neither there is no cover
\* page and the output starts with page 0 of the first content file.
C4_CoverExclusive ==
  args.op = "merge" =>
    /\ Len(args.coverFile) > 0 =>
         /\ CountEvents("addPage") = 0
         /\ \A k \in DOMAIN doc.pages : doc.pages[k].src # "default"
    /\ (Len(args.coverFile) = 0 /\ args.useDefaultCover /\ pc # "m_cover") =>
         /\ CountEvents("addPage") = 1
         /\ doc.pages[1].src = "default"
         /\ \A k \in DOMAIN doc.pages : k > 1 => doc.pages[k].src = "content"
    /\ (Len(args.coverFile) = 0 /\ ~args.useDefaultCover) =>
         /\ CountEvents("addPage") = 0
         /\ \A k \in DOMAIN doc.pages : doc.pages[k].src = "content"
         /\ (result.status = "ok" /\ Len(args.contentFiles) > 0) =>
              /\ result.bytes[1].file = args.contentFiles[1].id
              /\ result.bytes[1].idx = 0

C4_Witness ==
  /\ MergeOk
  /\ Len(args.coverFile) > 0
  /\ args.useDefaultCover
  /\ Len(args.defaultCoverLogo) > 0
  /\ Len(args.contentFiles) > 0

\* C5: when the cover file or a content file of a merge cannot be parsed, the
\* call ends in an error: no bytes are returned, no file after the failing one
\* is parsed, the document is never serialized and 100 is never reported.
C5_ParseFailureAborts ==
  (args.op = "merge" /\ SomeInputUnparseable) =>
    /\ result.status # "ok"
    /\ result.bytes = <<>>
    /\ pc = "done" => (result.status = "error" /\ result.error = MergeErrorMessage)
    /\ CountEvents("load") <= FirstUnparseable
    /\ CountEvents("save") = 0
    /\ ~doc.saved
    /\ \A k \in DOMAIN events :
         events[k].e = "progress" => events[k].v # FxFromInt(100)

C5_Witness ==
  /\ args.op = "merge" /\ pc = "done" /\ result.status = "error"
  /\ Len(args.coverFile) > 0 /\ args.coverFile[1].ok
  /\ Len(args.contentFiles) = 2
  /\ ~args.contentFiles[1].ok /\ args.contentFiles[2].ok
  /\ CountEvents("load") = 2

\* the values passed to onProgress, in order
ProgressValues ==
  LET ps == SelectSeq(events, LAMBDA ev : ev.e = "progress")
  IN  [k \in DOMAIN ps |-> ps[k].v]

IsProgress(k, value) == events[k].e = "progress" /\ events[k].v = FxFromInt(value)

IsCoverEvent(k) ==
  \/ events[k].e = "load" /\ events[k].v[1] = "cover"
  \/ events[k].e \in {"addPage", "embed"}

IsContentLoad(k) == events[k].e = "load" /\ events[k].v[1] = "content"

\* v is 15 + 80 * m / n up to the rounding of three double operations:
\* |n * v - (15 * n + 80 * m)| <= n * 2^-45
Near(v, m, n) ==
  LET lhs   == FxMulSmall(v, n)
      exact == FxFromInt(15 * n + 80 * m)
      tol   == FxCarry(n * 2048, 0, 0, 0)
  IN  FxLeq(lhs, FxAdd(exact, tol)) /\ FxLeq(exact, FxAdd(lhs, tol))

CoverHandled ==
  /\ args.op = "merge"
  /\ \/ pc = "m_content"
     \/ pc = "done" /\ (Len(args.coverFile) > 0 => args.coverFile[1].ok)

\* the positions of the content-file loads in the event log, in order
ContentLoadIndex ==
  SelectSeq([k \in DOMAIN events |-> k], LAMBDA k : IsContentLoad(k))

\* the event after the m-th successful content load is the progress value
\* 15 + 80 * m / n
PerFileProgress ==
  LET at == ContentLoadIndex IN
    \A m \in DOMAIN at :
      at[m] < Len(events) =>
        /\ events[at[m] + 1].e = "progress"
        /\ Near(events[at[m] + 1].v, m, Len(args.contentFiles))

\* 95, the serialization and 100 end a successful merge, in that order
HundredLast ==
  MergeOk =>
    /\ Len(events) >= 3
    /\ IsProgress(Len(events) - 2, 95)
    /\ events[Len(events) - 1].e = "save"
    /\ IsProgress(Len(events), 100)
    /\ \A k \in 1..(Len(events) - 1) : ~IsProgress(k, 100) /\ (k # Len(events) - 1 => events[k].e # "save")

\* C6 (as claimed): every value passed to onProgress in one merge lies in
\* [0,100] and the values never decrease, for every number of content files
\* and every cover choice.
C6_ProgressNeverDecreases ==
  args.op = "merge" =>
    LET p == ProgressValues IN
      /\ \A k \in DOMAIN p : FxLeq(FxFromInt(0), p[k]) /\ FxLeq(p[k], FxFromInt(100))
      /\ \A k \in 1..(Len(p) - 1) : FxLeq(p[k], p[k + 1])

\* C7 (as claimed): 5 is reported after cover handling has finished, whether a
\* cover was copied, synthesized or absent; then 15 + 80*(i+1)/n after file i;
\* and 100 last, after the serialization.
C7_FiveAfterCover ==
  /\ CoverHandled =>
       \E k \in DOMAIN events :
         /\ IsProgress(k, 5)
         /\ \A j \in DOMAIN events : IsCoverEvent(j) => j < k
  /\ args.op = "merge" => PerFileProgress
  /\ HundredLast

\* C7 (amended): 5 is reported before cover handling starts, and only when a
\* cover file is supplied or the default cover is synthesized; 15 is reported
\* once, after cover handling and before the first content file; after the
\* i-th of n files the double 15 + (i+1)*(80/n) is reported; 95 is reported
\* before the serialization and 100 last, after it.
C7_Checkpoints ==
  /\ CoverHandled =>
       /\ coverChoice(args.coverFile, args.useDefaultCover) # "none" =>
            /\ IsProgress(1, 5)
            /\ \A k \in DOMAIN events : k > 1 => ~IsProgress(k, 5)
       /\ coverChoice(args.coverFile, args.useDefaultCover) = "none" =>
            \A k \in DOMAIN events : ~IsProgress(k, 5)
       /\ \E k \in DOMAIN events :
            /\ IsProgress(k, 15)
            /\ \A j \in DOMAIN events :
                 /\ IsCoverEvent(j) => j < k
                 /\ IsContentLoad(j) => j > k
                 /\ (j # k /\ events[j].e = "progress" /\ events[j].v = FxFromInt(15)) => FALSE
  /\ args.op = "merge" => PerFileProgress
  /\ HundredLast

C7_Witness ==
  /\ MergeOk
  /\ Len(args.coverFile) > 0
  /\ Len(args.contentFiles) = 3
  /\ Len(ProgressValues) = 7
  /\ ProgressValues[4] # FxFromInt(41)

BatchOk == args.op = "batch" /\ result.status = "ok"

FlagCount(flag) == IF flag THEN 1 ELSE 0

TextDraws(page) == Cardinality({k \in DOMAIN page.draws : page.draws[k].op = "text"})

ImageDraws(page) == Cardinality({k \in DOMAIN page.draws : page.draws[k].op = "image"})

\* the logo bytes are neither PNG nor JPEG (a GIF, or corrupt data)
Unembeddable(logoFile) == Len(logoFile) > 0 /\ logoFile[1].data \notin {"png", "jpeg"}

SomeSourceMissing ==
  \E k \in DOMAIN args.editorPages :
    find(args.sourceFiles, args.editorPages[k].fileId) = <<>>

\* the first editor page whose source is missing
FirstMissingPage == CHOOSE k \in DOMAIN args.editorPages :
  /\ find(args.sourceFiles, args.editorPages[k].fileId) = <<>>
  /\ \A j \in 1..(k - 1) : find(args.sourceFiles, args.editorPages[j].fileId) # <<>>

\* C10 (as claimed): buildPdfFromEditor fails with MissingSourceError whenever
\* an editor page references a source id absent from the source list; it never
\* skips such a page and never returns an output buffer then.
C10_MissingSourceFails ==
  (args.op = "compile" /\ SomeSourceMissing) =>
    /\ result.status # "ok"
    /\ i < FirstMissingPage
    /\ pc = "done" =>
         /\ result.status = "error"
         /\ i + 1 = FirstMissingPage => result.error = "MissingSourceError"

\* ------------------------------------------------------------------ C11
\* the editor pages the call has reached: the first i, and the one it
\* failed on
PagesReached ==
  IF result.status = "error" THEN i + 1 ELSE i

ReferencedSoFar(id) ==
  \E k \in 1..PagesReached : args.editorPages[k].fileId = id

LoadsOf(id) ==
  Cardinality({k \in DOMAIN events :
                 events[k].e = "load" /\ events[k].v = <<"source", id>>})

PresentIds == {args.sourceFiles[k].id : k \in DOMAIN args.sourceFiles}

\* C11: at every point of an editor compile call, a source present in the
\* source list has been parsed exactly once if a page reached so far
\* references it and not at all otherwise: it is parsed at its first
\* reference and never again, whatever the number and the interleaving of
\* the references.
C11_ParsedOnce ==
  args.op = "compile" =>
    \A id \in PresentIds :
      LoadsOf(id) = (IF ReferencedSoFar(id) THEN 1 ELSE 0)

\* five pages reference source 1, interleaved with references to source 2;
\* the call has returned and parsed each source once
C11_Witness ==
  /\ args.op = "compile" /\ result.status = "ok"
  /\ Len(args.editorPages) = 5
  /\ \A k \in {1, 3, 4, 5} : args.editorPages[k].fileId = 1
  /\ args.editorPages[2].fileId = 2
  /\ PresentIds = {1, 2}
  /\ LoadsOf(1) = 1 /\ LoadsOf(2) = 1
  /\ Len(result.bytes) = 5

\* ------------------------------------------------------------------ C12
EditorOk == args.op = "compile" /\ result.status = "ok"

AllSourcesPresent ==
  \A k \in DOMAIN args.editorPages : find(args.sourceFiles, args.editorPages[k].fileId) # <<>>

\* C12: when every EditorPage references a present source, the document
\* under construction holds one page per EditorPage processed, the k-th
\* being the page at originalPageIndex of the source named by the k-th
\* EditorPage; the returned output has as many pages as the list.
C12_PagesAsListed ==
  (args.op = "compile" /\ AllSourcesPresent) =>
    /\ Len(doc.pages) = i
    /\ \A k \in DOMAIN doc.pages :
         /\ doc.pages[k].file = args.editorPages[k].fileId
         /\ doc.pages[k].idx = args.editorPages[k].originalPageIndex
    /\ result.status = "ok" =>
         (result.bytes = doc.pages /\ Len(result.bytes) = Len(args.editorPages))

\* the second page of source 2 first, then the first page of source 1
C12_Witness ==
  /\ EditorOk /\ AllSourcesPresent
  /\ Len(args.sourceFiles) = 2
  /\ Len(result.bytes) = 2
  /\ result.bytes[1].file = 2 /\ result.bytes[1].idx = 1
  /\ result.bytes[2].file = 1 /\ result.bytes[2].idx = 0

\* ------------------------------------------------------------------ C13
\* C13: every page written by editor compile has the rotation
\* (source page rotation + rotation delta) mod 360, one of 0, 90, 180, 270.
C13_RotationNormalized ==
  args.op = "compile" =>
    \A k \in DOMAIN doc.pages :
      /\ doc.pages[k].rot \in Rotations
      /\ AllSourcesPresent =>
           doc.pages[k].rot =
             (SourceRotation(args.editorPages[k].fileId) + args.editorPages[k].rotation) % 360

\* ------------------------------------------------------------------ C15
RECURSIVE Flatten(_)
Flatten(buffers) ==
  IF buffers = <<>> THEN <<>> ELSE buffers[1].pages \o Flatten(Tail(buffers))

RECURSIVE SumBufferPages(_)
SumBufferPages(buffers) ==
  IF buffers = <<>> THEN 0 ELSE Len(buffers[1].pages) + SumBufferPages(Tail(buffers))

CombineOk == args.op = "combine" /\ result.status = "ok"

\* C15: the combiner's output has the sum of the buffers' page counts, the
\* pages of each buffer unchanged and in buffer order; and combining the
\* output of combine(prior) with further buffers gives the pages, in the
\* order, of the prior buffers followed by the further ones, which is what
\* one call on all of them gives.
C15_CombineConcatenates ==
  CombineOk =>
    /\ Len(result.bytes) = SumBufferPages(args.processedFiles)
    /\ result.bytes = Flatten(args.processedFiles)
    /\ args.priorFiles # <<>> =>
         /\ result.bytes = Flatten(args.priorFiles \o Tail(args.processedFiles))
         /\ Len(result.bytes) = SumBufferPages(args.priorFiles \o Tail(args.processedFiles))

\* combine([combine([a, b]), c]) has returned, a with two pages
C15_Witness ==
  /\ CombineOk
  /\ Len(args.priorFiles) = 2 /\ Len(args.processedFiles) = 2
  /\ Len(args.priorFiles[1].pages) = 2
  /\ Len(result.bytes) = 2 + Len(args.priorFiles[2].pages) + Len(args.processedFiles[2].pages)
  /\ result.bytes[1].file # result.bytes[3].file
  /\ result.bytes[Len(result.bytes)].file \notin BufferIds(args.priorFiles)

\* ------------------------------------------------------------ C16, C17
Watermarked == args.op = "watermark" /\ pc = "done"

NoFlags(config) ==
  ~config.diagonal /\ ~config.bottom /\ ~config.top /\ ~config.crossed

StampDraws(page, stamp) ==
  SelectSeq(page.draws, LAMBDA dr : dr.op = "text" /\ dr.stamp = stamp)

\* C16 as stated: with the four flags false the engine performs no draw
\* operation on the page.
C16_NoFlagsNoDraw ==
  (Watermarked /\ NoFlags(args.config)) => doc.pages[1].draws = <<>>

\* C16, amended: with the four flags false the engine issues no text draw
\* and does not fail; it draws the logo image, once, iff a logo image
\* handle is passed, and nothing else.
C16_NoFlagsNoText ==
  (Watermarked /\ NoFlags(args.config)) =>
    /\ result.status = "ok"
    /\ TextDraws(doc.pages[1]) = 0
    /\ doc.pages[1].draws = (IF embeddedLogo THEN <<ImageDraw("logo")>> ELSE <<>>)

\* no flag and no logo image: the page is left as it was
C16_Witness ==
  /\ Watermarked /\ NoFlags(args.config) /\ ~embeddedLogo
  /\ result.status = "ok"
  /\ doc.pages[1].draws = <<>>

\* C17: the engine issues exactly one text draw per enabled flag among
\* diagonal, crossed, bottom, top and no other text draw; the bottom stamp
\* is at y = 15, the top stamp at y = pageHeight - 25, and both are centred
\* horizontally: x + textWidth / 2 = pageWidth / 2.
C17_OneDrawPerFlag ==
  Watermarked =>
    LET page == doc.pages[1]
        config == args.config
        centred(dr) == 2 * dr.x + args.font.widthAt10 = page.size.width
    IN  /\ Len(StampDraws(page, "diagonal")) = FlagCount(config.diagonal)
        /\ Len(StampDraws(page, "crossed")) = FlagCount(config.crossed)
        /\ Len(StampDraws(page, "bottom")) = FlagCount(config.bottom)
        /\ Len(StampDraws(page, "top")) = FlagCount(config.top)
        /\ TextDraws(page) = FlagCount(config.diagonal) + FlagCount(config.crossed)
                               + FlagCount(config.bottom) + FlagCount(config.top)
        /\ \A k \in DOMAIN StampDraws(page, "bottom") :
             /\ StampDraws(page, "bottom")[k].y = Pt(15)
             /\ centred(StampDraws(page, "bottom")[k])
        /\ \A k \in DOMAIN StampDraws(page, "top") :
             /\ StampDraws(page, "top")[k].y = page.size.height - Pt(25)
             /\ centred(StampDraws(page, "top")[k])

\* only bottom enabled, on a US Letter page: one text draw, 15pt from the
\* bottom; and a page with the top stamp as well
C17_Witness ==
  /\ Watermarked
  /\ args.config.bottom /\ ~args.config.diagonal /\ ~args.config.top /\ ~args.config.crossed
  /\ doc.pages[1].size = [width |-> Pt(612), height |-> Pt(792)]
  /\ ~embeddedLogo
  /\ Len(doc.pages[1].draws) = 1
  /\ doc.pages[1].draws[1].y = Pt(15)
  /\ 2 * doc.pages[1].draws[1].x + args.font.widthAt10 = Pt(612)

\* ------------------------------------------------------------------ C18
SynthesizerDue ==
  pc = "m_cover" /\ coverChoice(args.coverFile, args.useDefaultCover) = "default"

\* C18: the step that runs the cover page synthesizer leaves the document
\* with exactly one page more than it was given, the earlier pages
\* untouched, whether there is no logo, a logo that embeds or a logo whose
\* embedding fails.
C18_ExactlyOnePage ==
  [][SynthesizerDue =>
       /\ Len(doc'.pages) = Len(doc.pages) + 1
       /\ SubSeq(doc'.pages, 1, Len(doc.pages)) = doc.pages
       /\ doc'.pages[Len(doc'.pages)].src = "default"]_vars

\* the synthesizer has run with a logo whose embedding failed
C18_Witness ==
  /\ args.op = "merge" /\ pc = "m_content" /\ i = 0
  /\ coverChoice(args.coverFile, args.useDefaultCover) = "default"
  /\ Len(args.defaultCoverLogo) > 0 /\ ~coverLogoEmbedded(args.defaultCoverLogo)
  /\ Len(doc.pages) = 1 /\ doc.pages[1].src = "default"
  /\ doc.images = 0

\* ------------------------------------------------------------------ C14
\* C14: after every rotation the delta of an EditorPage is one of 0, 90,
\* 180, 270, and four rotations by 90 (per-page or Rotate All, in any mix,
\* whatever happens to other pages in between) return it to the value it
\* had before; a new page starts at 0.
C14_FourRotationsIdentity ==
  \A k \in DOMAIN appEditorPages :
    LET p == appEditorPages[k]
        h == history[p.id]
    IN  /\ p.rotation \in Rotations
        /\ h[Len(h)] = p.rotation
        /\ \A j \in DOMAIN h : h[j] \in Rotations
        /\ Len(h) = 5 => h[5] = h[1]
        /\ Len(h) < 5 => h[1] = 0

\* a page rotated four times from 0 back to 0 while another page of the
\* list was rotated once only
C14_Witness ==
  \E k, m \in DOMAIN appEditorPages :
    /\ history[appEditorPages[k].id] = <<0, 90, 180, 270, 0>>
    /\ appEditorPages[k].rotation = 0
    /\ history[appEditorPages[m].id] = <<0, 90>>

\* ------------------------------------------------------------------ C19
\* the content files of the latest batch run, and its last recorded event
RunFiles == log[1].v

LastLogged == log[Len(log)]

RunIds == {RunFiles[k].id : k \in DOMAIN RunFiles}

LoggedAt(e) == {k \in DOMAIN log : log[k].e = e}

Logged(e, idx) == \E k \in LoggedAt(e) : log[k].v = idx

\* C19: when processing content file k of a batch run fails, the run is
\* over: no file after k is started, nothing is in process, the status is
\* ERROR, nothing of the run is published, and the list of processed files
\* holds no output of the files of the run.
C19_FailureAbortsBatch ==
  (Len(log) > 0 /\ LastLogged.e = "fail") =>
    /\ task = NoTask /\ pc = "idle"
    /\ processingState.status = "ERROR"
    /\ LoggedAt("fail") = {Len(log)}
    /\ LoggedAt("publish") = {}
    /\ \A k \in LoggedAt("start") : log[k].v <= LastLogged.v
    /\ \A k \in DOMAIN appProcessedFiles : appProcessedFiles[k].id \notin RunIds

\* the second of two content files failed after the first was processed
C19_Witness ==
  /\ Len(log) > 0 /\ LastLogged.e = "fail" /\ LastLogged.v = 1
  /\ Len(RunFiles) = 2
  /\ Logged("end", 0)
  /\ processingState.status = "ERROR"

\* ------------------------------------------------------------------ C20
\* v is 100 * idx / total up to the rounding of two double operations:
\* |total * v - 100 * idx| <= total * 2^-45
NearPct(v, idx, total) ==
  LET lhs   == FxMulSmall(v, total)
      exact == FxFromInt(100 * idx)
      tol   == FxCarry(total * 2048, 0, 0, 0)
  IN  FxLeq(lhs, FxAdd(exact, tol)) /\ FxLeq(exact, FxAdd(lhs, tol))

\* the pages of an output that come from the content file
ContentPagesOf(bytes) == SelectSeq(bytes, LAMBDA page : page.src = "content")

\* file idx of the run is started right after its progress (idx / total) *
\* 100 was published, and after the file before it was completed
StartsInOrder ==
  \A k \in LoggedAt("start") :
    /\ k >= 3
    /\ log[k].v \in 0..(Len(RunFiles) - 1)
    /\ log[k - 1].e = "progress" /\ NearPct(log[k - 1].v, log[k].v, Len(RunFiles))
    /\ IF log[k].v = 0 THEN k = 3
                       ELSE log[k - 2].e = "end" /\ log[k - 2].v = log[k].v - 1

\* the engine works on a file only between its start and its end
OneFileInProcess ==
  pc # "idle" =>
    /\ Len(log) > 0 /\ LastLogged.e = "start"
    /\ args.contentFiles = <<RunFiles[LastLogged.v + 1].file>>

\* C20: a batch run starts file k+1 only after file k was completed and
\* publishes the progress (i / total) * 100 before file i starts; after a
\* successful run the list of processed files is as long as the list of
\* content files and its k-th entry is the output of the k-th content file,
\* with its id and its name.
C20_BatchInOrder ==
  Len(log) > 0 =>
    /\ log[1].e = "run"
    /\ StartsInOrder
    /\ OneFileInProcess
    /\ LastLogged.e = "publish" =>
         /\ processingState.status = "SUCCESS"
         /\ appProcessedFiles = LastLogged.v
         /\ Len(appProcessedFiles) = Len(RunFiles)
         /\ \A k \in DOMAIN RunFiles :
              /\ Logged("end", k - 1)
              /\ appProcessedFiles[k].id = RunFiles[k].id
              /\ appProcessedFiles[k].originalName = RunFiles[k].file.id
              /\ Len(ContentPagesOf(appProcessedFiles[k].processedData)) = RunFiles[k].file.n
              /\ \A page \in {ContentPagesOf(appProcessedFiles[k].processedData)[j] :
                                 j \in 1..RunFiles[k].file.n} :
                   page.file = RunFiles[k].file.id

\* two content files of different names were processed and published
C20_Witness ==
  /\ Len(log) > 0 /\ LastLogged.e = "publish"
  /\ Len(RunFiles) = 2
  /\ RunFiles[1].file.id # RunFiles[2].file.id
  /\ Len(appProcessedFiles) = 2
  /\ processingState.status = "SUCCESS"

\* ------------------------------------------------------------------ C21
PageIds(pages) == [k \in DOMAIN pages |-> pages[k].id]

\* the pages of the list before the step that are still in the list after it
KeptPages ==
  SelectSeq(appEditorPages,
            LAMBDA p : \E m \in DOMAIN appEditorPages' : appEditorPages'[m].id = p.id)

\* the pages of the list after the step that were in the list before it
OldPages ==
  SelectSeq(appEditorPages',
            LAMBDA p : \E k \in DOMAIN appEditorPages : appEditorPages[k].id = p.id)

\* C21: no step of the editor changes the source id or the original page
\* index of a page that stays in the list, or the relative order of the
\* pages that stay; a step that changes a rotation keeps the list of pages
\* and changes nothing but rotations, and a step that removes or adds pages
\* leaves the pages that stay as they were.
C21_IdentityFieldsFrozen ==
  [][/\ PageIds(OldPages) = PageIds(KeptPages)
     /\ \A k \in DOMAIN KeptPages :
          /\ OldPages[k].fileId = KeptPages[k].fileId
          /\ OldPages[k].originalPageIndex = KeptPages[k].originalPageIndex
          /\ OldPages[k].rotation \in {KeptPages[k].rotation, rotate90(KeptPages[k].rotation)}
     /\ OldPages # KeptPages => PageIds(appEditorPages') = PageIds(appEditorPages)
     /\ Len(appEditorPages') > Len(appEditorPages) =>
          SubSeq(appEditorPages', 1, Len(appEditorPages)) = appEditorPages]_vars

\* page 1 of a two-page source is left, rotated once, after page 0 was removed
C21_Witness ==
  /\ Len(appEditorPages) = 1
  /\ appEditorPages[1].originalPageIndex = 1
  /\ appEditorPages[1].rotation = 90
  /\ \E k \in DOMAIN editorSourceFiles : editorSourceFiles[k].id = appEditorPages[1].fileId

\* ------------------------------------------------------------------ C22
\* the pages the step has added to the pages of the ingest in flight
NewIngestPages == SubSeq(task'.pages, Len(task.pages) + 1, Len(task'.pages))

\* C22: the thumbnails of a source file with n pages are exactly n pages
\* with the original page indices 0..n-1 in ascending order, the rotation 0
\* and the id of the source file, and the end of a successful ingest appends
\* the new pages to the list and leaves the pages of the list as they were.
C22_OnePagePerSourcePage ==
  [][/\ (task.kind = "ingest" /\ task'.kind = "ingest" /\ task'.i = task.i + 1) =>
          LET fileItem == task.files[task.i + 1] IN
            /\ Len(NewIngestPages) = fileItem.file.n
            /\ \A j \in DOMAIN NewIngestPages :
                 /\ NewIngestPages[j].originalPageIndex = j - 1
                 /\ NewIngestPages[j].rotation = 0
                 /\ NewIngestPages[j].fileId = fileItem.id
     /\ (task.kind = "ingest" /\ task'.kind = "none"
           /\ processingState'.status = "IDLE" /\ task.i = Len(task.files)) =>
          appEditorPages' = appEditorPages \o task.pages]_vars

\* ------------------------------------------------------------------ C23
\* the step of the grid the configured text opacity is
OpacityStep == CHOOSE k \in OpacitySteps : DblDiv(k, OpacityGrid) = args.config.textOpacity

\* v is min(k / OpacityGrid + 0.4, 1) up to the rounding of the two
\* constants and of the sum: 5 * OpacityGrid * |v - min(...)| <= 5 * OpacityGrid * 2^-51
NearBoosted(v, k) ==
  LET scale == 5 * OpacityGrid
      lhs   == FxMulSmall(v, scale)
      sum   == 5 * k + 2 * OpacityGrid
      exact == FxFromInt(IF sum < scale THEN sum ELSE scale)
      tol   == FxCarry(scale * 32, 0, 0, 0)
  IN  FxLeq(lhs, FxAdd(exact, tol)) /\ FxLeq(exact, FxAdd(lhs, tol))

\* C23: for every text opacity in [0, 1] the bottom and the top stamp are
\* drawn with the opacity min(textOpacity + 0.4, 1), which is at most 1 and
\* at least the text opacity, and the diagonal and the crossed stamp with
\* the text opacity itself.
C23_BoostClamped ==
  (Watermarked /\ FxLeq(args.config.textOpacity, FxFromInt(1))) =>
    \A k \in DOMAIN doc.pages[1].draws :
      LET draw == doc.pages[1].draws[k] IN
        IF draw.stamp \in {"bottom", "top"}
          THEN /\ FxLeq(draw.opacity, FxFromInt(1))
               /\ FxLeq(args.config.textOpacity, draw.opacity)
               /\ NearBoosted(draw.opacity, OpacityStep)
               /\ 5 * OpacityStep >= 3 * OpacityGrid + 1 => draw.opacity = FxFromInt(1)
          ELSE draw.opacity = args.config.textOpacity

\* the four stamps under the text opacity 0.7: the footer and the header
\* are drawn with the opacity 1, the two rotated stamps with 0.7
C23_Witness ==
  /\ Watermarked
  /\ args.config.textOpacity = DblDiv(7, 10)
  /\ args.config.diagonal /\ args.config.crossed /\ args.config.bottom /\ args.config.top
  /\ Len(doc.pages[1].draws) = 4
  /\ doc.pages[1].draws[1].opacity = DblDiv(7, 10)
  /\ doc.pages[1].draws[3].opacity = FxFromInt(1)
  /\ doc.pages[1].draws[4].opacity = FxFromInt(1)

\* ------------------------------------------------------------------ C24
\* a merge or batch call is in progress or has ended
PipelineCalled == args.op \in {"merge", "batch"} /\ pc # "idle"

\* C24: from the first step of a merge or batch call on, before any page is
\* added and before the document is saved, the title of the document is
\* written exactly when a metadata object with a non-empty title is
\* supplied, and the author exactly when one with a non-empty author is;
\* without a metadata object nothing is written; nothing is written later.
C24_MetadataBeforePages ==
  PipelineCalled =>
    /\ doc.meta.title =
         (IF args.metadata # <<>> /\ args.metadata[1].title # ""
            THEN <<args.metadata[1].title>> ELSE <<>>)
    /\ doc.meta.author =
         (IF args.metadata # <<>> /\ args.metadata[1].author # ""
            THEN <<args.metadata[1].author>> ELSE <<>>)
    /\ args.metadata = <<>> => doc.meta = NoMeta

\* a saved merge with a title and without an author
C24_Witness ==
  /\ args.op = "merge" /\ pc = "done" /\ result.status = "ok" /\ doc.saved
  /\ args.metadata = <<[title |-> "Notes", author |-> ""]>>
  /\ doc.meta.title = <<"Notes">> /\ doc.meta.author = <<>>
  /\ Len(doc.pages) > 0

\* ------------------------------------------------------------------ C25
\* the sources parsed in the calls that have returned
ParsedEarlier == UNION {log[k].v : k \in DOMAIN log}

\* C25: every compile call starts with an empty cache and its cache holds
\* only sources referenced by the pages the call has reached: whatever the
\* earlier calls have parsed, a present source is parsed once in the call
\* that references it.
C25_CachePerCall ==
  args.op = "compile" =>
    /\ (pc = "e_loop" /\ i = 0) => loadedDocs = {}
    /\ \A id \in loadedDocs : ReferencedSoFar(id) /\ LoadsOf(id) = 1
    /\ \A id \in PresentIds \cap ParsedEarlier : ReferencedSoFar(id) => LoadsOf(id) = 1

\* the second call has returned the page of a source that the first call
\* had parsed, and has parsed it again
C25_Witness ==
  /\ args.op = "compile" /\ pc = "done" /\ result.status = "ok"
  /\ Len(log) = 1 /\ 1 \in log[1].v
  /\ Len(args.editorPages) = 2
  /\ \A k \in {1, 2} : args.editorPages[k].fileId = 1
  /\ LoadsOf(1) = 1
  /\ Len(result.bytes) = 2

\* ------------------------------------------------------------------ C26
\* C26: two merges on the same files end with the same result (success or
\* failure) and the same output pages, whatever their progress callbacks
\* do, a callback that throws included.
C26_CallbackIndependent ==
  Len(log) = 2 =>
    /\ log[1].v.status = log[2].v.status
    /\ log[1].v.bytes = log[2].v.bytes

\* ------------------------------------------------------------------ C27
EditorSourceIds == {editorSourceFiles[k].id : k \in DOMAIN editorSourceFiles}

\* C27: in every state of the editor each EditorPage of the page list has
\* the id of an entry of the list of editor source files as its fileId.
C27_PagesHaveSources ==
  \A k \in DOMAIN appEditorPages : appEditorPages[k].fileId \in EditorSourceIds

\* ------------------------------------------------------------------ C28
\* the state clearAll leaves: no merged output, no processed file, IDLE
LooksCleared ==
  /\ processingState.status = "IDLE"
  /\ mergedPdfUrl = <<>>
  /\ appProcessedFiles = <<>>

\* the user starts a handler: none was in flight, the status becomes PROCESSING
UserStarts ==
  /\ task.kind = "none" /\ task'.kind # "none"
  /\ processingState'.status = "PROCESSING"

\* C28: once the merged output is null, the processed files are empty and
\* the status is IDLE, as after clearAll or a mode switch, they stay so
\* until the user starts a new process or ingest, whatever call is still in
\* flight.
C28_ClearedStaysCleared ==
  [][LooksCleared => (LooksCleared' \/ UserStarts)]_vars

\* C29: every handler that has set the status PROCESSING returns, and the
\* step in which it returns leaves a status other than PROCESSING: IDLE or
\* ERROR after an ingest, SUCCESS or ERROR after a merge, a batch, an editor
\* compile or a merge of the batch results, in the cover-required and in the
\* cover-optional version of handleProcess
HandlerReturns == task.kind # "none" /\ task'.kind = "none"

TerminalStatus(kind, status) ==
  IF kind = "ingest" THEN status \in {"IDLE", "ERROR"} ELSE status \in {"SUCCESS", "ERROR"}

C29_HandlersEndTerminal ==
  /\ [][HandlerReturns => TerminalStatus(task.kind, processingState'.status)]_vars
  /\ (task.kind # "none") ~> (task.kind = "none")

\* a single merge has ended in SUCCESS with its URL
C29_Witness ==
  /\ task.kind = "none" /\ mode = "MERGE"
  /\ processingState.status = "SUCCESS" /\ mergedPdfUrl # <<>>

\* C30: when the thumbnail generation of an ingest fails, the step into the
\* catch block leaves the editor page list as it was, and the editor source
\* list as it was before the ingest started: without the files of the batch
IngestFails ==
  /\ task.kind = "ingest" /\ task'.kind = "none"
  /\ processingState'.status = "ERROR"

BeforeIngest(sources) ==
  SelectSeq(sources, LAMBDA f : \A k \in DOMAIN task.files : task.files[k].id # f.id)

C30_IngestAllOrNothing ==
  [][IngestFails => /\ appEditorPages' = appEditorPages
                    /\ editorSourceFiles' = BeforeIngest(editorSourceFiles)]_vars

====
